---- MODULE Spec2Model ----
(***************************************************************************)
(* A model of the ICP classifier of src/app.py: the text normalizer, the   *)
(* regular-expression matcher the rule tables are read with, the rule      *)
(* tables, the ordered classification pipeline, the label post-processor   *)
(* and the process-wide caches.                                            *)
(*                                                                         *)
(* Texts are TLA+ strings, matched character by character.  The module is  *)
(* plain ASCII, so every non-ASCII character of the source is written with *)
(* an ASCII stand-in, in the patterns, in the labels and in the titles:    *)
(*     a-acute 4   e-acute 3   i-acute 1   o-acute 0   u-acute 9           *)
(*     n-tilde 7   c-cedilla 6   sharp-s 8   any combining mark ~          *)
(* The stand-ins are word characters for \b, as the letters they stand for *)
(* are, and they are the characters the ASCII encoding step drops.  A real *)
(* digit that occurs in the source ("prince2") is one the list leaves out. *)
(* Titles are drawn from alphabets without those digits and without line   *)
(* breaks.                                                                 *)
(***************************************************************************)
EXTENDS Integers, Sequences, FiniteSets, TLC

\* re_compile     what re.compile gives for each pattern; it never changes
\* _compiled_regex_cache
\*                the keys of the compiled-pattern cache that come from
\*                callers' excludes
\* _result_cache  the result cache, a sequence of [key, val] in the order of
\*                insertion
\* _norm_cache    the normalizer's cache, a sequence of [key, val]
\* call           the last operation: its name, arguments and return value
\* calls          the number of operations so far
\* threads        the requests being served at the same time: for each
\*                worker thread, where it is in classify_one and its locals
VARIABLES re_compile, _compiled_regex_cache, _result_cache, _norm_cache, call, calls,
          threads

vars == <<re_compile, _compiled_regex_cache, _result_cache, _norm_cache, call, calls,
          threads>>

(***************************************************************************)
(* Strings.                                                                *)
(***************************************************************************)
CharAt(s, i) == SubSeq(s, i, i)

Rest(s) == SubSeq(s, 2, Len(s))

Whitespace == {" ", "\t"}

Lowercase == "abcdefghijklmnopqrstuvwxyz"

Uppercase == "ABCDEFGHIJKLMNOPQRSTUVWXYZ"

Digits == {"0", "1", "2", "3", "4", "5", "6", "7", "8", "9"}

\* \w: letters, digits (the stand-ins of accented letters among them), "_".
WordChars == {CharAt(Lowercase, i) : i \in 1 .. Len(Lowercase)}
             \cup {CharAt(Uppercase, i) : i \in 1 .. Len(Uppercase)}
             \cup Digits \cup {"_"}

\* The characters outside ASCII: the stand-ins and the combining mark.
NonAscii == {"0", "1", "3", "4", "6", "7", "8", "9", "~"}

\* unicodedata.normalize("NFD", c): an accented letter is its base letter
\* followed by a combining mark; sharp-s has no decomposition.
Decomposition ==
  [c \in {"4", "3", "1", "0", "9", "7", "6"} |->
     CASE c = "4" -> "a~" [] c = "3" -> "e~" [] c = "1" -> "i~" [] c = "0" -> "o~"
       [] c = "9" -> "u~" [] c = "7" -> "n~" [] c = "6" -> "c~"]

LowerMap == [c \in {CharAt(Uppercase, i) : i \in 1 .. Len(Uppercase)} |->
               CharAt(Lowercase, CHOOSE i \in 1 .. Len(Uppercase) : CharAt(Uppercase, i) = c)]

\* The pieces of a sequence of strings from a to b, concatenated.  (Split in
\* halves, so that the evaluation nests as deep as the logarithm of the length.)
RECURSIVE join(_, _, _)
join(pieces, a, b) ==
  IF a > b THEN ""
  ELSE IF a = b THEN pieces[a]
  ELSE LET m == (a + b) \div 2
       IN join(pieces, a, m) \o join(pieces, m + 1, b)

Min(S) == CHOOSE i \in S : \A j \in S : i <= j

Max(S) == CHOOSE i \in S : \A j \in S : i >= j

lower(s) ==
  join([i \in 1 .. Len(s) |->
          IF CharAt(s, i) \in DOMAIN LowerMap THEN LowerMap[CharAt(s, i)] ELSE CharAt(s, i)],
       1, Len(s))

\* str.strip(): from the first to the last character that is not whitespace.
strip(s) ==
  LET kept == {i \in 1 .. Len(s) : CharAt(s, i) \notin Whitespace}
  IN IF kept = {} THEN "" ELSE SubSeq(s, Min(kept), Max(kept))

nfd(s) ==
  join([i \in 1 .. Len(s) |->
          IF CharAt(s, i) \in DOMAIN Decomposition THEN Decomposition[CharAt(s, i)]
          ELSE CharAt(s, i)],
       1, Len(s))

\* s.encode("ascii", "ignore").decode("ascii")
encode_ascii_ignore(s) ==
  join([i \in 1 .. Len(s) |-> IF CharAt(s, i) \in NonAscii THEN "" ELSE CharAt(s, i)],
       1, Len(s))

\* re.sub(r"\s+", " ", s): a run of whitespace is one space, written where
\* the run starts.
collapse_whitespace(s) ==
  join([i \in 1 .. Len(s) |->
          IF CharAt(s, i) \notin Whitespace THEN CharAt(s, i)
          ELSE IF i > 1 /\ CharAt(s, i - 1) \in Whitespace THEN "" ELSE " "],
       1, Len(s))

\* str.find, counted from 1: the first position of sub in s, 0 for none.
find(s, sub) ==
  LET at == {i \in 1 .. (Len(s) - Len(sub) + 1) : SubSeq(s, i, i + Len(sub) - 1) = sub}
  IN IF at = {} THEN 0 ELSE Min(at)

contains(s, sub) == find(s, sub) # 0

endswith(s, suffix) ==
  Len(s) >= Len(suffix) /\ SubSeq(s, Len(s) - Len(suffix) + 1, Len(s)) = suffix

startswith(s, prefix) == Len(s) >= Len(prefix) /\ SubSeq(s, 1, Len(prefix)) = prefix

(***************************************************************************)
(* The caches are dicts: a sequence of entries [key, val] in insertion     *)
(* order, at most one per key.  An operation on a cache takes the cache    *)
(* and gives the value returned and the cache it leaves.                   *)
(***************************************************************************)
\* The index of the entry of key, 0 when the dict has none.
cache_find(dict, key) ==
  LET hits == {i \in DOMAIN dict : dict[i].key = key}
  IN IF hits = {} THEN 0 ELSE Min(hits)

_norm_cache_max_size == 41

norm_value(s) == collapse_whitespace(encode_ascii_ignore(nfd(lower(strip(s)))))

\* norm making room, when the cache is at its cap, by removing the entry
\* stored first.
norm_evicting(s, nc) ==
  IF s = "" THEN [ret |-> "", nc |-> nc]
  ELSE IF cache_find(nc, s) # 0 THEN [ret |-> nc[cache_find(nc, s)].val, nc |-> nc]
  ELSE LET result == norm_value(s)
       IN [ret |-> result,
           nc  |-> Append(IF Len(nc) < _norm_cache_max_size THEN nc ELSE Tail(nc),
                          [key |-> s, val |-> result])]

norm(s, nc) ==
  IF s = "" THEN [ret |-> "", nc |-> nc]
  ELSE IF cache_find(nc, s) # 0 THEN [ret |-> nc[cache_find(nc, s)].val, nc |-> nc]
  ELSE LET result == norm_value(s)
       IN [ret |-> result,
           nc  |-> IF Len(nc) < _norm_cache_max_size
                   THEN Append(nc, [key |-> s, val |-> result]) ELSE nc]

(***************************************************************************)
(* Regular expressions.  A pattern is the string the source writes; its    *)
(* syntax tree is what compile gives, which lists every pattern of the     *)
(* rule tables and the patterns callers pass that are not in them.  A      *)
(* string compile does not list is no regular expression: re.compile       *)
(* raises re.error for it.  The matcher is only ever applied to lower-case *)
(* text, and the literals of the trees are lower case: that is what        *)
(* re.IGNORECASE comes down to.                                            *)
(***************************************************************************)
L(s) == <<"L", s>>

Cls(S) == <<"C", S>>

B == <<"B">>

Ws == <<"S">>

Bol == <<"BOL">>

Eol == <<"EOL">>

Dot == <<"N">>

Opt(p) == <<"O", p>>

Star(p) == <<"K", p>>

Plus(p) == <<"P", p>>

Cat(ps) == <<"Q", ps>>

Alt(ps) == <<"A", ps>>

RegexTable == <<
    <<"\\bceo\\b", Cat(<<B, L("ceo"), B>>)>>,
    <<"\\bcto\\b", Cat(<<B, L("cto"), B>>)>>,
    <<"\\bcfo\\b", Cat(<<B, L("cfo"), B>>)>>,
    <<"\\bcmo\\b", Cat(<<B, L("cmo"), B>>)>>,
    <<"\\bcoo\\b", Cat(<<B, L("coo"), B>>)>>,
    <<"\\bcio\\b", Cat(<<B, L("cio"), B>>)>>,
    <<"\\bchro\\b", Cat(<<B, L("chro"), B>>)>>,
    <<"\\bcso\\b", Cat(<<B, L("cso"), B>>)>>,
    <<"\\bcro\\b", Cat(<<B, L("cro"), B>>)>>,
    <<"^marketing\\s+manager$", Cat(<<Bol, L("marketing"), Plus(Ws), L("manager"), Eol>>)>>,
    <<"^sales\\s+manager$", Cat(<<Bol, L("sales"), Plus(Ws), L("manager"), Eol>>)>>,
    <<"^hr\\s+manager$", Cat(<<Bol, L("hr"), Plus(Ws), L("manager"), Eol>>)>>,
    <<"^it\\s+manager$", Cat(<<Bol, L("it"), Plus(Ws), L("manager"), Eol>>)>>,
    <<"^product\\s+manager$", Cat(<<Bol, L("product"), Plus(Ws), L("manager"), Eol>>)>>,
    <<"^project\\s+manager$", Cat(<<Bol, L("project"), Plus(Ws), L("manager"), Eol>>)>>,
    <<"^account\\s+manager$", Cat(<<Bol, L("account"), Plus(Ws), L("manager"), Eol>>)>>,
    <<"^brand\\s+manager$", Cat(<<Bol, L("brand"), Plus(Ws), L("manager"), Eol>>)>>,
    <<"^operations\\s+manager$", Cat(<<Bol, L("operations"), Plus(Ws), L("manager"), Eol>>)>>,
    <<"^gerentes?\\s+de\\s+marketing$", Cat(<<Bol, L("gerente"), Opt(L("s")), Plus(Ws), L("de"), Plus(Ws), L("marketing"), Eol>>)>>,
    <<"^gerentes?\\s+de\\s+ventas$", Cat(<<Bol, L("gerente"), Opt(L("s")), Plus(Ws), L("de"), Plus(Ws), L("ventas"), Eol>>)>>,
    <<"^gerentes?\\s+de\\s+recursos\\s+humanos$", Cat(<<Bol, L("gerente"), Opt(L("s")), Plus(Ws), L("de"), Plus(Ws), L("recursos"), Plus(Ws), L("humanos"), Eol>>)>>,
    <<"^gerentes?\\s+de\\s+tecnolog[1i]a$", Cat(<<Bol, L("gerente"), Opt(L("s")), Plus(Ws), L("de"), Plus(Ws), L("tecnolog"), Cls({"i", "1"}), L("a"), Eol>>)>>,
    <<"^gerentes?\\s+de\\s+producto$", Cat(<<Bol, L("gerente"), Opt(L("s")), Plus(Ws), L("de"), Plus(Ws), L("producto"), Eol>>)>>,
    <<"^gerentes?\\s+de\\s+proyectos$", Cat(<<Bol, L("gerente"), Opt(L("s")), Plus(Ws), L("de"), Plus(Ws), L("proyectos"), Eol>>)>>,
    <<"^directores?\\s+de\\s+marketing$", Cat(<<Bol, L("directore"), Opt(L("s")), Plus(Ws), L("de"), Plus(Ws), L("marketing"), Eol>>)>>,
    <<"^directores?\\s+de\\s+ventas$", Cat(<<Bol, L("directore"), Opt(L("s")), Plus(Ws), L("de"), Plus(Ws), L("ventas"), Eol>>)>>,
    <<"^directores?\\s+de\\s+finanzas$", Cat(<<Bol, L("directore"), Opt(L("s")), Plus(Ws), L("de"), Plus(Ws), L("finanzas"), Eol>>)>>,
    <<"^software\\s+engineer$", Cat(<<Bol, L("software"), Plus(Ws), L("engineer"), Eol>>)>>,
    <<"^data\\s+scientist$", Cat(<<Bol, L("data"), Plus(Ws), L("scientist"), Eol>>)>>,
    <<"^system\\s+administrator$", Cat(<<Bol, L("system"), Plus(Ws), L("administrator"), Eol>>)>>,
    <<"^chief\\s+marketing$", Cat(<<Bol, L("chief"), Plus(Ws), L("marketing"), Eol>>)>>,
    <<"^marketing\\s+team$", Cat(<<Bol, L("marketing"), Plus(Ws), L("team"), Eol>>)>>,
    <<"^marketing\\s+director$", Cat(<<Bol, L("marketing"), Plus(Ws), L("director"), Eol>>)>>,
    <<"^sales\\s+director$", Cat(<<Bol, L("sales"), Plus(Ws), L("director"), Eol>>)>>,
    <<"^technology\\s+director$", Cat(<<Bol, L("technology"), Plus(Ws), L("director"), Eol>>)>>,
    <<"\\bfounder(s)?\\b", Cat(<<B, L("founder"), Opt(L("s")), B>>)>>,
    <<"\\bco[- ]?founder(s)?\\b", Cat(<<B, L("co"), Opt(Cls({" ", "-"})), L("founder"), Opt(L("s")), B>>)>>,
    <<"\\bfundador(a)?s?\\b", Cat(<<B, L("fundador"), Opt(L("a")), Opt(L("s")), B>>)>>,
    <<"\\bco[- ]?fundador(a)?s?\\b", Cat(<<B, L("co"), Opt(Cls({" ", "-"})), L("fundador"), Opt(L("a")), Opt(L("s")), B>>)>>,
    <<"\\bowner(s)?\\b", Cat(<<B, L("owner"), Opt(L("s")), B>>)>>,
    <<"\\bpropietari[oa]s?\\b", Cat(<<B, L("propietari"), Cls({"a", "o"}), Opt(L("s")), B>>)>>,
    <<"\\bdue[n7][oa]s?\\b", Cat(<<B, L("due"), Cls({"n", "7"}), Cls({"a", "o"}), Opt(L("s")), B>>)>>,
    <<"\\bsoci[oa]s?\\b", Cat(<<B, L("soci"), Cls({"a", "o"}), Opt(L("s")), B>>)>>,
    <<"\\bpartner(s)?\\b", Cat(<<B, L("partner"), Opt(L("s")), B>>)>>,
    <<"\\bchair(man|woman)?\\b", Cat(<<B, L("chair"), Opt(Alt(<<L("man"), L("woman")>>)), B>>)>>,
    <<"\\bdirector\\s+general\\b", Cat(<<B, L("director"), Plus(Ws), L("general"), B>>)>>,
    <<"\\bgeneral\\s+manager\\b", Cat(<<B, L("general"), Plus(Ws), L("manager"), B>>)>>,
    <<"\\bgerente\\s+general\\b", Cat(<<B, L("gerente"), Plus(Ws), L("general"), B>>)>>,
    <<"\\bmanaging\\s+director\\b", Cat(<<B, L("managing"), Plus(Ws), L("director"), B>>)>>,
    <<"\\bcdo\\b", Cat(<<B, L("cdo"), B>>)>>,
    <<"\\bciso\\b", Cat(<<B, L("ciso"), B>>)>>,
    <<"\\bcco\\b", Cat(<<B, L("cco"), B>>)>>,
    <<"\\bcao\\b", Cat(<<B, L("cao"), B>>)>>,
    <<"\\bcqa\\b", Cat(<<B, L("cqa"), B>>)>>,
    <<"\\bchief\\b", Cat(<<B, L("chief"), B>>)>>,
    <<"\\bvp\\b", Cat(<<B, L("vp"), B>>)>>,
    <<"\\bvice\\s*president\\b", Cat(<<B, L("vice"), Star(Ws), L("president"), B>>)>>,
    <<"\\bdirect(or|ora)\\b", Cat(<<B, L("direct"), Alt(<<L("or"), L("ora")>>), B>>)>>,
    <<"\\bhead\\s+of\\b", Cat(<<B, L("head"), Plus(Ws), L("of"), B>>)>>,
    <<"\\bdeputy\\b", Cat(<<B, L("deputy"), B>>)>>,
    <<"\\bsubdirect(or|ora)\\b", Cat(<<B, L("subdirect"), Alt(<<L("or"), L("ora")>>), B>>)>>,
    <<"\\bmanager\\b", Cat(<<B, L("manager"), B>>)>>,
    <<"\\bgerente\\b", Cat(<<B, L("gerente"), B>>)>>,
    <<"\\bjef[ea]\\b", Cat(<<B, L("jef"), Cls({"a", "e"}), B>>)>>,
    <<"\\blead\\b", Cat(<<B, L("lead"), B>>)>>,
    <<"\\bleader\\b", Cat(<<B, L("leader"), B>>)>>,
    <<"\\bprincipal\\b", Cat(<<B, L("principal"), B>>)>>,
    <<"\\bcoordinador(a)?\\b", Cat(<<B, L("coordinador"), Opt(L("a")), B>>)>>,
    <<"\\bcoordinator\\b", Cat(<<B, L("coordinator"), B>>)>>,
    <<"\\bresponsable\\b", Cat(<<B, L("responsable"), B>>)>>,
    <<"\\bspecialist\\b", Cat(<<B, L("specialist"), B>>)>>,
    <<"\\bespecialista\\b", Cat(<<B, L("especialista"), B>>)>>,
    <<"\\bengineer\\b", Cat(<<B, L("engineer"), B>>)>>,
    <<"\\bingeniero\\b", Cat(<<B, L("ingeniero"), B>>)>>,
    <<"\\banalyst\\b", Cat(<<B, L("analyst"), B>>)>>,
    <<"\\banalista\\b", Cat(<<B, L("analista"), B>>)>>,
    <<"\\bexecutive\\b", Cat(<<B, L("executive"), B>>)>>,
    <<"\\bejecutiv[oa]\\b", Cat(<<B, L("ejecutiv"), Cls({"a", "o"}), B>>)>>,
    <<"\\bdata\\b", Cat(<<B, L("data"), B>>)>>,
    <<"\\banalytics\\b", Cat(<<B, L("analytics"), B>>)>>,
    <<"\\bbi\\b", Cat(<<B, L("bi"), B>>)>>,
    <<"\\bbusiness intelligence\\b", Cat(<<B, L("business intelligence"), B>>)>>,
    <<"\\bingenier1a\\b", Cat(<<B, L("ingenier1a"), B>>)>>,
    <<"\\bdevelop\\b", Cat(<<B, L("develop"), B>>)>>,
    <<"\\bsoftware\\b", Cat(<<B, L("software"), B>>)>>,
    <<"\\btechnical\\b", Cat(<<B, L("technical"), B>>)>>,
    <<"\\bt3cnico\\b", Cat(<<B, L("t3cnico"), B>>)>>,
    <<"\\btech\\b", Cat(<<B, L("tech"), B>>)>>,
    <<"\\bproduct\\b", Cat(<<B, L("product"), B>>)>>,
    <<"\\bproducto\\b", Cat(<<B, L("producto"), B>>)>>,
    <<"\\bpm\\b", Cat(<<B, L("pm"), B>>)>>,
    <<"\\binfrastructure\\b", Cat(<<B, L("infrastructure"), B>>)>>,
    <<"\\bcloud\\b", Cat(<<B, L("cloud"), B>>)>>,
    <<"\\bdevops\\b", Cat(<<B, L("devops"), B>>)>>,
    <<"\\bsystem\\b", Cat(<<B, L("system"), B>>)>>,
    <<"\\bdigital\\b", Cat(<<B, L("digital"), B>>)>>,
    <<"\\bonline\\b", Cat(<<B, L("online"), B>>)>>,
    <<"\\bppc\\b", Cat(<<B, L("ppc"), B>>)>>,
    <<"\\bsem\\b", Cat(<<B, L("sem"), B>>)>>,
    <<"\\bseo\\b", Cat(<<B, L("seo"), B>>)>>,
    <<"\\btraditional\\b", Cat(<<B, L("traditional"), B>>)>>,
    <<"\\bprint\\b", Cat(<<B, L("print"), B>>)>>,
    <<"\\btv\\b", Cat(<<B, L("tv"), B>>)>>,
    <<"\\bradio\\b", Cat(<<B, L("radio"), B>>)>>,
    <<"\\bcontent\\b", Cat(<<B, L("content"), B>>)>>,
    <<"\\bcontenido\\b", Cat(<<B, L("contenido"), B>>)>>,
    <<"\\bbrand\\b", Cat(<<B, L("brand"), B>>)>>,
    <<"\\bcopy\\b", Cat(<<B, L("copy"), B>>)>>,
    <<"\\bgrowth\\b", Cat(<<B, L("growth"), B>>)>>,
    <<"\\bcrecimiento\\b", Cat(<<B, L("crecimiento"), B>>)>>,
    <<"\\bacquisition\\b", Cat(<<B, L("acquisition"), B>>)>>,
    <<"\\bperformance\\b", Cat(<<B, L("performance"), B>>)>>,
    <<"\\bmetrics\\b", Cat(<<B, L("metrics"), B>>)>>,
    <<"\\bsocial\\b", Cat(<<B, L("social"), B>>)>>,
    <<"\\bcommunity\\b", Cat(<<B, L("community"), B>>)>>,
    <<"\\binfluencer\\b", Cat(<<B, L("influencer"), B>>)>>,
    <<"\\binside\\b", Cat(<<B, L("inside"), B>>)>>,
    <<"\\binbound\\b", Cat(<<B, L("inbound"), B>>)>>,
    <<"\\binternal\\b", Cat(<<B, L("internal"), B>>)>>,
    <<"\\bfield\\b", Cat(<<B, L("field"), B>>)>>,
    <<"\\boutside\\b", Cat(<<B, L("outside"), B>>)>>,
    <<"\\bexternal\\b", Cat(<<B, L("external"), B>>)>>,
    <<"\\bchannel\\b", Cat(<<B, L("channel"), B>>)>>,
    <<"\\bpartner\\b", Cat(<<B, L("partner"), B>>)>>,
    <<"\\bindirect\\b", Cat(<<B, L("indirect"), B>>)>>,
    <<"\\bkey account\\b", Cat(<<B, L("key account"), B>>)>>,
    <<"\\benterprise\\b", Cat(<<B, L("enterprise"), B>>)>>,
    <<"\\bstrategic\\b", Cat(<<B, L("strategic"), B>>)>>,
    <<"\\baccounting\\b", Cat(<<B, L("accounting"), B>>)>>,
    <<"\\bcontabilidad\\b", Cat(<<B, L("contabilidad"), B>>)>>,
    <<"\\baccountant\\b", Cat(<<B, L("accountant"), B>>)>>,
    <<"\\btreasury\\b", Cat(<<B, L("treasury"), B>>)>>,
    <<"\\btesorer1a\\b", Cat(<<B, L("tesorer1a"), B>>)>>,
    <<"\\bcash\\b", Cat(<<B, L("cash"), B>>)>>,
    <<"\\bcontrol\\b", Cat(<<B, L("control"), B>>)>>,
    <<"\\bcontroller\\b", Cat(<<B, L("controller"), B>>)>>,
    <<"\\baudit\\b", Cat(<<B, L("audit"), B>>)>>,
    <<"\\bfp&a\\b", Cat(<<B, L("fp&a"), B>>)>>,
    <<"\\bplanning\\b", Cat(<<B, L("planning"), B>>)>>,
    <<"\\banalysis\\b", Cat(<<B, L("analysis"), B>>)>>,
    <<"\\bbudget\\b", Cat(<<B, L("budget"), B>>)>>,
    <<"\\bcredit\\b", Cat(<<B, L("credit"), B>>)>>,
    <<"\\brisk\\b", Cat(<<B, L("risk"), B>>)>>,
    <<"\\bcollections\\b", Cat(<<B, L("collections"), B>>)>>,
    <<"\\blogistics\\b", Cat(<<B, L("logistics"), B>>)>>,
    <<"\\bwarehouse\\b", Cat(<<B, L("warehouse"), B>>)>>,
    <<"\\bshipping\\b", Cat(<<B, L("shipping"), B>>)>>,
    <<"\\bsupply chain\\b", Cat(<<B, L("supply chain"), B>>)>>,
    <<"\\bprocurement\\b", Cat(<<B, L("procurement"), B>>)>>,
    <<"\\bsourcing\\b", Cat(<<B, L("sourcing"), B>>)>>,
    <<"\\bquality\\b", Cat(<<B, L("quality"), B>>)>>,
    <<"\\bqi\\b", Cat(<<B, L("qi"), B>>)>>,
    <<"\\bqc\\b", Cat(<<B, L("qc"), B>>)>>,
    <<"\\bcustomer service\\b", Cat(<<B, L("customer service"), B>>)>>,
    <<"\\bsupport\\b", Cat(<<B, L("support"), B>>)>>,
    <<"\\bservice\\b", Cat(<<B, L("service"), B>>)>>,
    <<"\\btalent\\b", Cat(<<B, L("talent"), B>>)>>,
    <<"\\brecruit\\b", Cat(<<B, L("recruit"), B>>)>>,
    <<"\\bcompensation\\b", Cat(<<B, L("compensation"), B>>)>>,
    <<"\\bbenefits\\b", Cat(<<B, L("benefits"), B>>)>>,
    <<"\\bpayroll\\b", Cat(<<B, L("payroll"), B>>)>>,
    <<"\\blearning\\b", Cat(<<B, L("learning"), B>>)>>,
    <<"\\btraining\\b", Cat(<<B, L("training"), B>>)>>,
    <<"\\bl&d\\b", Cat(<<B, L("l&d"), B>>)>>,
    <<"\\bbusiness\\s+partner\\b", Cat(<<B, L("business"), Plus(Ws), L("partner"), B>>)>>,
    <<"\\bhrbp\\b", Cat(<<B, L("hrbp"), B>>)>>,
    <<"\\bmanagement\\b", Cat(<<B, L("management"), B>>)>>,
    <<"\\bowner\\b", Cat(<<B, L("owner"), B>>)>>,
    <<"\\bdesign\\b", Cat(<<B, L("design"), B>>)>>,
    <<"\\bux\\b", Cat(<<B, L("ux"), B>>)>>,
    <<"\\bui\\b", Cat(<<B, L("ui"), B>>)>>,
    <<"\\buser\\s+experience\\b", Cat(<<B, L("user"), Plus(Ws), L("experience"), B>>)>>,
    <<"\\bstrategy\\b", Cat(<<B, L("strategy"), B>>)>>,
    <<"\\bstrateg\\b", Cat(<<B, L("strateg"), B>>)>>,
    <<"\\bportfolio\\b", Cat(<<B, L("portfolio"), B>>)>>,
    <<"\\bresearch\\b", Cat(<<B, L("research"), B>>)>>,
    <<"\\binsights\\b", Cat(<<B, L("insights"), B>>)>>,
    <<"\\bschedule\\b", Cat(<<B, L("schedule"), B>>)>>,
    <<"\\bcronograma\\b", Cat(<<B, L("cronograma"), B>>)>>,
    <<"\\bcoordination\\b", Cat(<<B, L("coordination"), B>>)>>,
    <<"\\bimplementation\\b", Cat(<<B, L("implementation"), B>>)>>,
    <<"\\bdeployment\\b", Cat(<<B, L("deployment"), B>>)>>,
    <<"\\bexecution\\b", Cat(<<B, L("execution"), B>>)>>,
    <<"\\bagile\\b", Cat(<<B, L("agile"), B>>)>>,
    <<"\\bscrum\\b", Cat(<<B, L("scrum"), B>>)>>,
    <<"\\bwaterfall\\b", Cat(<<B, L("waterfall"), B>>)>>,
    <<"\\bpmi\\b", Cat(<<B, L("pmi"), B>>)>>,
    <<"chief marketing officer", L("chief marketing officer")>>,
    <<"chief marketing", L("chief marketing")>>,
    <<"chief information officer", L("chief information officer")>>,
    <<"chief information technology officer", L("chief information technology officer")>>,
    <<"chief technical officer", L("chief technical officer")>>,
    <<"chief technology officer", L("chief technology officer")>>,
    <<"chief transformation & technology officer", L("chief transformation & technology officer")>>,
    <<"ctto", L("ctto")>>,
    <<"chief of technology", L("chief of technology")>>,
    <<"chief product and technology officer", L("chief product and technology officer")>>,
    <<"technical chief", L("technical chief")>>,
    <<"chief information security officer", L("chief information security officer")>>,
    <<"chief commercial officer", L("chief commercial officer")>>,
    <<"chief sales officer", L("chief sales officer")>>,
    <<"chief revenue officer", L("chief revenue officer")>>,
    <<"chief executive officer", L("chief executive officer")>>,
    <<"chief financial officer", L("chief financial officer")>>,
    <<"chief data officer", L("chief data officer")>>,
    <<"chief digital officer", L("chief digital officer")>>,
    <<"chief human resources officer", L("chief human resources officer")>>,
    <<"chief (of )?operations|chief operating( officer)?|operations officer", Alt(<<Cat(<<L("chief "), Opt(L("of ")), L("operations")>>), Cat(<<L("chief operating"), Opt(L(" officer"))>>), L("operations officer")>>)>>,
    <<"chief administrat(ive|ion) officer", Cat(<<L("chief administrat"), Alt(<<L("ive"), L("ion")>>), L(" officer")>>)>>,
    <<"cqa", L("cqa")>>,
    <<"\\bvp\\b|\\bvice ?president(e)?\\b", Alt(<<Cat(<<B, L("vp"), B>>), Cat(<<B, L("vice"), Opt(L(" ")), L("president"), Opt(L("e")), B>>)>>)>>,
    <<"\\bhead\\b|\\bdirect(or|ora)\\b|\\bdireccion\\b|\\bdirecci[o0]n\\b", Alt(<<Cat(<<B, L("head"), B>>), Cat(<<B, L("direct"), Alt(<<L("or"), L("ora")>>), B>>), Cat(<<B, L("direccion"), B>>), Cat(<<B, L("direcci"), Cls({"o", "0"}), L("n"), B>>)>>)>>,
    <<"\\bmanager\\b|\\bgerente\\b|\\bjef[ea]\\b|\\bresponsable\\b|\\blead\\b|\\bprincipal\\b|\\bleader\\b", Alt(<<Cat(<<B, L("manager"), B>>), Cat(<<B, L("gerente"), B>>), Cat(<<B, L("jef"), Cls({"a", "e"}), B>>), Cat(<<B, L("responsable"), B>>), Cat(<<B, L("lead"), B>>), Cat(<<B, L("principal"), B>>), Cat(<<B, L("leader"), B>>)>>)>>,
    <<"\\bcoordinador(a)?\\b|\\bcoordinator\\b", Alt(<<Cat(<<B, L("coordinador"), Opt(L("a")), B>>), Cat(<<B, L("coordinator"), B>>)>>)>>,
    <<"\\bstrategist\\b|\\bestratega\\b", Alt(<<Cat(<<B, L("strategist"), B>>), Cat(<<B, L("estratega"), B>>)>>)>>,
    <<"\\bejecutiv[oa]s?\\b|\\bexecutive\\b", Alt(<<Cat(<<B, L("ejecutiv"), Cls({"a", "o"}), Opt(L("s")), B>>), Cat(<<B, L("executive"), B>>)>>)>>,
    <<"\\bgestor(es)?\\b", Cat(<<B, L("gestor"), Opt(L("es")), B>>)>>,
    <<"\\badministrador(a)?\\b|\\badministrator\\b", Alt(<<Cat(<<B, L("administrador"), Opt(L("a")), B>>), Cat(<<B, L("administrator"), B>>)>>)>>,
    <<"\\bcontroller\\b|\\bcontrolador\\b", Alt(<<Cat(<<B, L("controller"), B>>), Cat(<<B, L("controlador"), B>>)>>)>>,
    <<"\\baccountant\\b|\\bcontador(a)?\\b|\\bcontable(s)?\\b", Alt(<<Cat(<<B, L("accountant"), B>>), Cat(<<B, L("contador"), Opt(L("a")), B>>), Cat(<<B, L("contable"), Opt(L("s")), B>>)>>)>>,
    <<"\\bdepartment\\b|\\bdepartamento\\b|\\bdpto\\b", Alt(<<Cat(<<B, L("department"), B>>), Cat(<<B, L("departamento"), B>>), Cat(<<B, L("dpto"), B>>)>>)>>,
    <<"\\bteam\\b|\\bequipo\\b", Alt(<<Cat(<<B, L("team"), B>>), Cat(<<B, L("equipo"), B>>)>>)>>,
    <<"\\bengineer\\b|\\bingeniero\\b", Alt(<<Cat(<<B, L("engineer"), B>>), Cat(<<B, L("ingeniero"), B>>)>>)>>,
    <<"\\banalyst\\b|\\banalista\\b", Alt(<<Cat(<<B, L("analyst"), B>>), Cat(<<B, L("analista"), B>>)>>)>>,
    <<"\\bscientist\\b|\\bcient[1i]fico\\b", Alt(<<Cat(<<B, L("scientist"), B>>), Cat(<<B, L("cient"), Cls({"i", "1"}), L("fico"), B>>)>>)>>,
    <<"\\bspecialist\\b|\\bespecialista\\b", Alt(<<Cat(<<B, L("specialist"), B>>), Cat(<<B, L("especialista"), B>>)>>)>>,
    <<"\\brepresentative\\b|\\brepresentante\\b", Alt(<<Cat(<<B, L("representative"), B>>), Cat(<<B, L("representante"), B>>)>>)>>,
    <<"\\bconsultant\\b|\\bconsultor(a)?\\b", Alt(<<Cat(<<B, L("consultant"), B>>), Cat(<<B, L("consultor"), Opt(L("a")), B>>)>>)>>,
    <<"\\bplanner\\b|\\bplanificador(a)?\\b", Alt(<<Cat(<<B, L("planner"), B>>), Cat(<<B, L("planificador"), Opt(L("a")), B>>)>>)>>,
    <<"\\brecruiter\\b|\\breclutador(a)?\\b", Alt(<<Cat(<<B, L("recruiter"), B>>), Cat(<<B, L("reclutador"), Opt(L("a")), B>>)>>)>>,
    <<"\\bjunior\\b|\\bjr\\b", Alt(<<Cat(<<B, L("junior"), B>>), Cat(<<B, L("jr"), B>>)>>)>>,
    <<"\\btrainee\\b|\\bbecari[oa]\\b|\\bintern\\b", Alt(<<Cat(<<B, L("trainee"), B>>), Cat(<<B, L("becari"), Cls({"a", "o"}), B>>), Cat(<<B, L("intern"), B>>)>>)>>,
    <<"\\bassistant\\b|\\basistente\\b", Alt(<<Cat(<<B, L("assistant"), B>>), Cat(<<B, L("asistente"), B>>)>>)>>,
    <<"\\bcommunity\\b|\\bartist\\b|\\bart\\b", Alt(<<Cat(<<B, L("community"), B>>), Cat(<<B, L("artist"), B>>), Cat(<<B, L("art"), B>>)>>)>>,
    <<"\\bdesign\\b|\\bdise[n7]o\\b|\\badvisor\\b", Alt(<<Cat(<<B, L("design"), B>>), Cat(<<B, L("dise"), Cls({"n", "7"}), L("o"), B>>), Cat(<<B, L("advisor"), B>>)>>)>>,
    <<"\\bpaid\\b|\\bcustomer\\b", Alt(<<Cat(<<B, L("paid"), B>>), Cat(<<B, L("customer"), B>>)>>)>>,
    <<"(?:\\bproject (manager|lead|director)\\b|\\bjefe de proyecto(s)?\\b|\\bgestor de proyecto(s)?\\b|\\bpm\\b|\\bdirect(or|ora) de proyecto(s)?\\b)", Alt(<<Cat(<<B, L("project "), Alt(<<L("manager"), L("lead"), L("director")>>), B>>), Cat(<<B, L("jefe de proyecto"), Opt(L("s")), B>>), Cat(<<B, L("gestor de proyecto"), Opt(L("s")), B>>), Cat(<<B, L("pm"), B>>), Cat(<<B, L("direct"), Alt(<<L("or"), L("ora")>>), L(" de proyecto"), Opt(L("s")), B>>)>>)>>,
    <<"^\\s*vp\\s*$|^\\s*vice ?president(e)?\\s*$", Alt(<<Cat(<<Bol, Star(Ws), L("vp"), Star(Ws), Eol>>), Cat(<<Bol, Star(Ws), L("vice"), Opt(L(" ")), L("president"), Opt(L("e")), Star(Ws), Eol>>)>>)>>,
    <<"^\\s*president(e)?\\s*$", Cat(<<Bol, Star(Ws), L("president"), Opt(L("e")), Star(Ws), Eol>>)>>,
    <<"^\\s*director(a)?\\s*$", Cat(<<Bol, Star(Ws), L("director"), Opt(L("a")), Star(Ws), Eol>>)>>,
    <<"^\\s*gerente\\s*$", Cat(<<Bol, Star(Ws), L("gerente"), Star(Ws), Eol>>)>>,
    <<"^\\s*manager\\s*$", Cat(<<Bol, Star(Ws), L("manager"), Star(Ws), Eol>>)>>,
    <<"^\\s*ejecutiv[oa]s?\\s*$", Cat(<<Bol, Star(Ws), L("ejecutiv"), Cls({"a", "o"}), Opt(L("s")), Star(Ws), Eol>>)>>,
    <<"^\\s*administraci[0o]n\\s*$", Cat(<<Bol, Star(Ws), L("administraci"), Cls({"o", "0"}), L("n"), Star(Ws), Eol>>)>>,
    <<"^\\s*administrativ[oa]s?\\s*$", Cat(<<Bol, Star(Ws), L("administrativ"), Cls({"a", "o"}), Opt(L("s")), Star(Ws), Eol>>)>>,
    <<"^\\s*head of department\\s*$", Cat(<<Bol, Star(Ws), L("head of department"), Star(Ws), Eol>>)>>,
    <<"^\\s*(marketing|mkt)\\s*$", Cat(<<Bol, Star(Ws), Alt(<<L("marketing"), L("mkt")>>), Star(Ws), Eol>>)>>,
    <<"^\\s*(it|ti|sistemas|tecnolog[i1]a|technology|tech)\\s*$", Cat(<<Bol, Star(Ws), Alt(<<L("it"), L("ti"), L("sistemas"), Cat(<<L("tecnolog"), Cls({"i", "1"}), L("a")>>), L("technology"), L("tech")>>), Star(Ws), Eol>>)>>,
    <<"^\\s*(ventas|sales|comercial(?:es)?)\\s*$", Cat(<<Bol, Star(Ws), Alt(<<L("ventas"), L("sales"), Cat(<<L("comercial"), Opt(L("es"))>>)>>), Star(Ws), Eol>>)>>,
    <<"^\\s*(finanzas?|finance|financial|contabilidad|accounting)\\s*$", Cat(<<Bol, Star(Ws), Alt(<<Cat(<<L("finanza"), Opt(L("s"))>>), L("finance"), L("financial"), L("contabilidad"), L("accounting")>>), Star(Ws), Eol>>)>>,
    <<"^\\s*(rr\\.?\\s*hh\\.?|r\\.?\\s*r\\.?\\s*h\\.?\\s*h\\.?|recursos humanos|hr|human resources|people)\\s*$", Cat(<<Bol, Star(Ws), Alt(<<Cat(<<L("rr"), Opt(L(".")), Star(Ws), L("hh"), Opt(L("."))>>), Cat(<<L("r"), Opt(L(".")), Star(Ws), L("r"), Opt(L(".")), Star(Ws), L("h"), Opt(L(".")), Star(Ws), L("h"), Opt(L("."))>>), L("recursos humanos"), L("hr"), L("human resources"), L("people")>>), Star(Ws), Eol>>)>>,
    <<"^\\s*(legal|jur[i1]dico|law|legal affairs)\\s*$", Cat(<<Bol, Star(Ws), Alt(<<L("legal"), Cat(<<L("jur"), Cls({"i", "1"}), L("dico")>>), L("law"), L("legal affairs")>>), Star(Ws), Eol>>)>>,
    <<"^\\s*(operaciones|operations|ops|log[i1]stica|logistics|supply ?chain)\\s*$", Cat(<<Bol, Star(Ws), Alt(<<L("operaciones"), L("operations"), L("ops"), Cat(<<L("log"), Cls({"i", "1"}), L("stica")>>), L("logistics"), Cat(<<L("supply"), Opt(L(" ")), L("chain")>>)>>), Star(Ws), Eol>>)>>,
    <<"\\b(it|ti)\\b", Cat(<<B, Alt(<<L("it"), L("ti")>>), B>>)>>,
    <<"\\bsistemas\\b", Cat(<<B, L("sistemas"), B>>)>>,
    <<"\\btechnology\\b|\\btech\\b", Alt(<<Cat(<<B, L("technology"), B>>), Cat(<<B, L("tech"), B>>)>>)>>,
    <<"\\binformatic[ao]\\b|\\binformation\\b", Alt(<<Cat(<<B, L("informatic"), Cls({"a", "o"}), B>>), Cat(<<B, L("information"), B>>)>>)>>,
    <<"\\bsoftware\\b|\\bplatform\\b", Alt(<<Cat(<<B, L("software"), B>>), Cat(<<B, L("platform"), B>>)>>)>>,
    <<"\\barquitectur[ao]?\\b|\\barchitecture\\b", Alt(<<Cat(<<B, L("arquitectur"), Opt(Cls({"a", "o"})), B>>), Cat(<<B, L("architecture"), B>>)>>)>>,
    <<"\\binfraestructura\\b|\\binfrastructure\\b", Alt(<<Cat(<<B, L("infraestructura"), B>>), Cat(<<B, L("infrastructure"), B>>)>>)>>,
    <<"\\bsecurity\\b|\\bseguridad\\b", Alt(<<Cat(<<B, L("security"), B>>), Cat(<<B, L("seguridad"), B>>)>>)>>,
    <<"\\bcloud\\b|\\bnube\\b|aws|azure|\\bgcp\\b|\\bgoogle cloud\\b", Alt(<<Cat(<<B, L("cloud"), B>>), Cat(<<B, L("nube"), B>>), L("aws"), L("azure"), Cat(<<B, L("gcp"), B>>), Cat(<<B, L("google cloud"), B>>)>>)>>,
    <<"\\bdata\\b|bi|analytics?", Alt(<<Cat(<<B, L("data"), B>>), L("bi"), Cat(<<L("analytic"), Opt(L("s"))>>)>>)>>,
    <<"\\bmarketing\\b", Cat(<<B, L("marketing"), B>>)>>,
    <<"\\bbrand(ing)?\\b|\\bmarca\\b", Alt(<<Cat(<<B, L("brand"), Opt(L("ing")), B>>), Cat(<<B, L("marca"), B>>)>>)>>,
    <<"\\bcontent\\b|\\bcontenid[oa]\\b", Alt(<<Cat(<<B, L("content"), B>>), Cat(<<B, L("contenid"), Cls({"a", "o"}), B>>)>>)>>,
    <<"\\bcomunicaciones?\\b|\\bcomms\\b|communications?", Alt(<<Cat(<<B, L("comunicacione"), Opt(L("s")), B>>), Cat(<<B, L("comms"), B>>), Cat(<<L("communication"), Opt(L("s"))>>)>>)>>,
    <<"\\bpublicidad\\b|\\badvertis(ing|ement|ements)?\\b|paid media", Alt(<<Cat(<<B, L("publicidad"), B>>), Cat(<<B, L("advertis"), Opt(Alt(<<L("ing"), L("ement"), L("ements")>>)), B>>), L("paid media")>>)>>,
    <<"\\bseo\\b|\\bsem\\b|\\bperformance\\b|\\bgrowth\\b|\\bautomation\\b|\\bemail\\b|social media|redes sociales", Alt(<<Cat(<<B, L("seo"), B>>), Cat(<<B, L("sem"), B>>), Cat(<<B, L("performance"), B>>), Cat(<<B, L("growth"), B>>), Cat(<<B, L("automation"), B>>), Cat(<<B, L("email"), B>>), L("social media"), L("redes sociales")>>)>>,
    <<"\\boperaciones\\b|\\boperations\\b|\\bops\\b", Alt(<<Cat(<<B, L("operaciones"), B>>), Cat(<<B, L("operations"), B>>), Cat(<<B, L("ops"), B>>)>>)>>,
    <<"\\bindustrial\\b|\\bmanufactur\\b|\\bfabric\\b|\\bconstrucci[o0]n\\b|\\bconstruction\\b", Alt(<<Cat(<<B, L("industrial"), B>>), Cat(<<B, L("manufactur"), B>>), Cat(<<B, L("fabric"), B>>), Cat(<<B, L("construcci"), Cls({"o", "0"}), L("n"), B>>), Cat(<<B, L("construction"), B>>)>>)>>,
    <<"\\bproducci[o0]n\\b|\\bproduction\\b|\\bplanta\\b|\\bplant\\b", Alt(<<Cat(<<B, L("producci"), Cls({"o", "0"}), L("n"), B>>), Cat(<<B, L("production"), B>>), Cat(<<B, L("planta"), B>>), Cat(<<B, L("plant"), B>>)>>)>>,
    <<"\\bcalidad\\b|\\bquality\\b|\\bmantenimiento\\b|\\bmaintenance\\b", Alt(<<Cat(<<B, L("calidad"), B>>), Cat(<<B, L("quality"), B>>), Cat(<<B, L("mantenimiento"), B>>), Cat(<<B, L("maintenance"), B>>)>>)>>,
    <<"(?:\\bhead\\b|\\bdirect(or|ora)\\b)", Alt(<<Cat(<<B, L("head"), B>>), Cat(<<B, L("direct"), Alt(<<L("or"), L("ora")>>), B>>)>>)>>,
    <<"(?:\\bvp\\b|\\bvice ?president(e)?)", Alt(<<Cat(<<B, L("vp"), B>>), Cat(<<B, L("vice"), Opt(L(" ")), L("president"), Opt(L("e"))>>)>>)>>,
    <<"(?:\\bmanager\\b|\\bgerente\\b)", Alt(<<Cat(<<B, L("manager"), B>>), Cat(<<B, L("gerente"), B>>)>>)>>,
    <<"(?:\\bjef[ea]\\b|\\bprincipal\\b|\\blead\\b|\\bleader\\b)", Alt(<<Cat(<<B, L("jef"), Cls({"a", "e"}), B>>), Cat(<<B, L("principal"), B>>), Cat(<<B, L("lead"), B>>), Cat(<<B, L("leader"), B>>)>>)>>,
    <<"(?:\\bcoordinador(a)?\\b|\\bcoordinator\\b)", Alt(<<Cat(<<B, L("coordinador"), Opt(L("a")), B>>), Cat(<<B, L("coordinator"), B>>)>>)>>,
    <<"(?:\\bcontroller\\b|\\bcontrolador\\b)", Alt(<<Cat(<<B, L("controller"), B>>), Cat(<<B, L("controlador"), B>>)>>)>>,
    <<"(?:\\baccountant\\b|\\bcontador(a)?\\b|\\bcontable(s)?\\b)", Alt(<<Cat(<<B, L("accountant"), B>>), Cat(<<B, L("contador"), Opt(L("a")), B>>), Cat(<<B, L("contable"), Opt(L("s")), B>>)>>)>>,
    <<"(?:\\bstrategist\\b|\\bestratega\\b)", Alt(<<Cat(<<B, L("strategist"), B>>), Cat(<<B, L("estratega"), B>>)>>)>>,
    <<"(?:\\bejecutiv[oa]s?\\b|\\bexecutive\\b)", Alt(<<Cat(<<B, L("ejecutiv"), Cls({"a", "o"}), Opt(L("s")), B>>), Cat(<<B, L("executive"), B>>)>>)>>,
    <<"(?:\\bgestor(es)?\\b)", Cat(<<B, L("gestor"), Opt(L("es")), B>>)>>,
    <<"(?:\\bsystem(s)?\\b|\\b(it\\s*)?systems?\\b|sistemas?)", Alt(<<Cat(<<B, L("system"), Opt(L("s")), B>>), Cat(<<B, Opt(Cat(<<L("it"), Star(Ws)>>)), L("system"), Opt(L("s")), B>>), Cat(<<L("sistema"), Opt(L("s"))>>)>>)>>,
    <<"(?:\\bnetwork(s)?\\b|redes?)", Alt(<<Cat(<<B, L("network"), Opt(L("s")), B>>), Cat(<<L("rede"), Opt(L("s"))>>)>>)>>,
    <<"(?:infraestructura|infrastructure)", Alt(<<L("infraestructura"), L("infrastructure")>>)>>,
    <<"(?:implementation|implementaci[o0]n|deployment|despliegue)", Alt(<<L("implementation"), Cat(<<L("implementaci"), Cls({"o", "0"}), L("n")>>), L("deployment"), L("despliegue")>>)>>,
    <<"(?:ingenier[1i]a|engineer(?:ing)?)", Alt(<<Cat(<<L("ingenier"), Cls({"i", "1"}), L("a")>>), Cat(<<L("engineer"), Opt(L("ing"))>>)>>)>>,
    <<"(?:\\bti\\b|\\bit\\b|informaci[o0]n|information)", Alt(<<Cat(<<B, L("ti"), B>>), Cat(<<B, L("it"), B>>), Cat(<<L("informaci"), Cls({"o", "0"}), L("n")>>), L("information")>>)>>,
    <<"(?:tecnolog[1i]a|technology|tech|technical|tecnico)", Alt(<<Cat(<<L("tecnolog"), Cls({"i", "1"}), L("a")>>), L("technology"), L("tech"), L("technical"), L("tecnico")>>)>>,
    <<"(?:\\bdevops\\b)", Cat(<<B, L("devops"), B>>)>>,
    <<"(?:\\bqa\\b|quality assurance|tester|testing|aseguramiento de calidad|control de calidad|quality control)", Alt(<<Cat(<<B, L("qa"), B>>), L("quality assurance"), L("tester"), L("testing"), L("aseguramiento de calidad"), L("control de calidad"), L("quality control")>>)>>,
    <<"(?:project|proyectos|jefe de proyecto|gestor de proyecto|\\bpm\\b)", Alt(<<L("project"), L("proyectos"), L("jefe de proyecto"), L("gestor de proyecto"), Cat(<<B, L("pm"), B>>)>>)>>,
    <<"(?:arquitectur[ao]|\\barchitecture\\b|architect)", Alt(<<Cat(<<L("arquitectur"), Cls({"a", "o"})>>), Cat(<<B, L("architecture"), B>>), L("architect")>>)>>,
    <<"(?:security|seguridad|infosec|ciberseguridad|cyber ?security)", Alt(<<L("security"), L("seguridad"), L("infosec"), L("ciberseguridad"), Cat(<<L("cyber"), Opt(L(" ")), L("security")>>)>>)>>,
    <<"(?:platform|plataforma)", Alt(<<L("platform"), L("plataforma")>>)>>,
    <<"(?:cloud|nube|aws|azure|gcp|google cloud)", Alt(<<L("cloud"), L("nube"), L("aws"), L("azure"), L("gcp"), L("google cloud")>>)>>,
    <<"(?:data|datos|bi|business intelligence|analitica)", Alt(<<L("data"), L("datos"), L("bi"), L("business intelligence"), L("analitica")>>)>>,
    <<"(?:support|soporte|help ?desk|service ?desk|technical ?support)", Alt(<<L("support"), L("soporte"), Cat(<<L("help"), Opt(L(" ")), L("desk")>>), Cat(<<L("service"), Opt(L(" ")), L("desk")>>), Cat(<<L("technical"), Opt(L(" ")), L("support")>>)>>)>>,
    <<"(?:\\b(it\\s*)?systems?\\s*admin(?:istrator)?\\b|\\bsys\\s*admin\\b|\\bsysadmin\\b)", Alt(<<Cat(<<B, Opt(Cat(<<L("it"), Star(Ws)>>)), L("system"), Opt(L("s")), Star(Ws), L("admin"), Opt(L("istrator")), B>>), Cat(<<B, L("sys"), Star(Ws), L("admin"), B>>), Cat(<<B, L("sysadmin"), B>>)>>)>>,
    <<"(?:\\bnetwork\\s*admin(?:istrator)?\\b|\\bredes?\\s*admin(?:istrador|istradora)?\\b)", Alt(<<Cat(<<B, L("network"), Star(Ws), L("admin"), Opt(L("istrator")), B>>), Cat(<<B, L("rede"), Opt(L("s")), Star(Ws), L("admin"), Opt(Alt(<<L("istrador"), L("istradora")>>)), B>>)>>)>>,
    <<"systems?\\s*and\\s*network\\s*admin(?:istrator)?", Cat(<<L("system"), Opt(L("s")), Star(Ws), L("and"), Star(Ws), L("network"), Star(Ws), L("admin"), Opt(L("istrator"))>>)>>,
    <<"(?:technical\\s+(?:support|service|manager)|tech\\s+(?:support|service|manager))", Alt(<<Cat(<<L("technical"), Plus(Ws), Alt(<<L("support"), L("service"), L("manager")>>)>>), Cat(<<L("tech"), Plus(Ws), Alt(<<L("support"), L("service"), L("manager")>>)>>)>>)>>,
    <<"(?:technical\\s+director|tech\\s+director)", Alt(<<Cat(<<L("technical"), Plus(Ws), L("director")>>), Cat(<<L("tech"), Plus(Ws), L("director")>>)>>)>>,
    <<"(?:technical\\s+lead|tech\\s+lead)", Alt(<<Cat(<<L("technical"), Plus(Ws), L("lead")>>), Cat(<<L("tech"), Plus(Ws), L("lead")>>)>>)>>,
    <<"(?:technical\\s+analyst|tech\\s+analyst)", Alt(<<Cat(<<L("technical"), Plus(Ws), L("analyst")>>), Cat(<<L("tech"), Plus(Ws), L("analyst")>>)>>)>>,
    <<"(?:support\\s+manager)", Cat(<<L("support"), Plus(Ws), L("manager")>>)>>,
    <<"(?:customer\\s+support|help\\s+desk)", Alt(<<Cat(<<L("customer"), Plus(Ws), L("support")>>), Cat(<<L("help"), Plus(Ws), L("desk")>>)>>)>>,
    <<"(?:\\bbrand(ing)?\\b|\\bmarca\\b)", Alt(<<Cat(<<B, L("brand"), Opt(L("ing")), B>>), Cat(<<B, L("marca"), B>>)>>)>>,
    <<"(?:\\bcontenid[oa]\\b|\\bcontent\\b)", Alt(<<Cat(<<B, L("contenid"), Cls({"a", "o"}), B>>), Cat(<<B, L("content"), B>>)>>)>>,
    <<"(?:\\bcomunicaciones?\\b|\\bcomms\\b|communications?)", Alt(<<Cat(<<B, L("comunicacione"), Opt(L("s")), B>>), Cat(<<B, L("comms"), B>>), Cat(<<L("communication"), Opt(L("s"))>>)>>)>>,
    <<"(?:\\bpublicidad\\b|\\badvertis(ing|ement|ements)?\\b|paid media)", Alt(<<Cat(<<B, L("publicidad"), B>>), Cat(<<B, L("advertis"), Opt(Alt(<<L("ing"), L("ement"), L("ements")>>)), B>>), L("paid media")>>)>>,
    <<"\\bemail\\b", Cat(<<B, L("email"), B>>)>>,
    <<"\\bautomation\\b|\\bmarketing automation\\b|hubspot|marketo", Alt(<<Cat(<<B, L("automation"), B>>), Cat(<<B, L("marketing automation"), B>>), L("hubspot"), L("marketo")>>)>>,
    <<"(?:\\bperformance\\b|growth)", Alt(<<Cat(<<B, L("performance"), B>>), L("growth")>>)>>,
    <<"(?:social media|redes sociales|community)", Alt(<<L("social media"), L("redes sociales"), L("community")>>)>>,
    <<"(?:\\bseo\\b|search engine optimization)", Alt(<<Cat(<<B, L("seo"), B>>), L("search engine optimization")>>)>>,
    <<"(?:\\bsem\\b|paid search|google ads)", Alt(<<Cat(<<B, L("sem"), B>>), L("paid search"), L("google ads")>>)>>,
    <<"\\bbrand(ing)?\\b.*\\bmanager\\b|\\bbrand manager\\b", Alt(<<Cat(<<B, L("brand"), Opt(L("ing")), B, Star(Dot), B, L("manager"), B>>), Cat(<<B, L("brand manager"), B>>)>>)>>,
    <<"\\bcontent\\b.*\\bmanager\\b|\\bcontent manager\\b", Alt(<<Cat(<<B, L("content"), B, Star(Dot), B, L("manager"), B>>), Cat(<<B, L("content manager"), B>>)>>)>>,
    <<"\\bmarketing team\\b", Cat(<<B, L("marketing team"), B>>)>>,
    <<"\\bventas\\b|\\bsales\\b", Alt(<<Cat(<<B, L("ventas"), B>>), Cat(<<B, L("sales"), B>>)>>)>>,
    <<"\\bcomercial(es)?\\b", Cat(<<B, L("comercial"), Opt(L("es")), B>>)>>,
    <<"\\brevenue\\b", Cat(<<B, L("revenue"), B>>)>>,
    <<"\\bgo[- ]?to[- ]?market\\b|\\bgtm\\b", Alt(<<Cat(<<B, L("go"), Opt(Cls({" ", "-"})), L("to"), Opt(Cls({" ", "-"})), L("market"), B>>), Cat(<<B, L("gtm"), B>>)>>)>>,
    <<"\\bbusiness ?development\\b|\\bbd[rm]?\\b", Alt(<<Cat(<<B, L("business"), Opt(L(" ")), L("development"), B>>), Cat(<<B, L("bd"), Opt(Cls({"m", "r"})), B>>)>>)>>,
    <<"\\baccount (manager|executive)\\b|\\bae\\b|\\bam\\b", Alt(<<Cat(<<B, L("account "), Alt(<<L("manager"), L("executive")>>), B>>), Cat(<<B, L("ae"), B>>), Cat(<<B, L("am"), B>>)>>)>>,
    <<"\\bpartner(ship|s)?\\b|alianzas|partnerships?", Alt(<<Cat(<<B, L("partner"), Opt(Alt(<<L("ship"), L("s")>>)), B>>), L("alianzas"), Cat(<<L("partnership"), Opt(L("s"))>>)>>)>>,
    <<"\\bpre[- ]?sales?\\b|preventas", Alt(<<Cat(<<B, L("pre"), Opt(Cls({" ", "-"})), L("sale"), Opt(L("s")), B>>), L("preventas")>>)>>,
    <<"(?:post[- ]?sales?|postventa|customer success)", Alt(<<Cat(<<L("post"), Opt(Cls({" ", "-"})), L("sale"), Opt(L("s"))>>), L("postventa"), L("customer success")>>)>>,
    <<"\\baccount manager\\b", Cat(<<B, L("account manager"), B>>)>>,
    <<"\\baccount executive\\b", Cat(<<B, L("account executive"), B>>)>>,
    <<"(?:\\baccounting\\b|\\bcontabilidad\\b|\\baccount\\b|\\bcontador(a)?\\b|\\bcontable(s)?\\b)", Alt(<<Cat(<<B, L("accounting"), B>>), Cat(<<B, L("contabilidad"), B>>), Cat(<<B, L("account"), B>>), Cat(<<B, L("contador"), Opt(L("a")), B>>), Cat(<<B, L("contable"), Opt(L("s")), B>>)>>)>>,
    <<"(?:\\bcontroller\\b|\\bcontrolador\\b|\\bcontrol de gesti[o0]n\\b)", Alt(<<Cat(<<B, L("controller"), B>>), Cat(<<B, L("controlador"), B>>), Cat(<<B, L("control de gesti"), Cls({"o", "0"}), L("n"), B>>)>>)>>,
    <<"(?:\\bfinance\\b|\\bfinancial\\b|\\bfinanzas?\\b|\\bfinanciera\\b)", Alt(<<Cat(<<B, L("finance"), B>>), Cat(<<B, L("financial"), B>>), Cat(<<B, L("finanza"), Opt(L("s")), B>>), Cat(<<B, L("financiera"), B>>)>>)>>,
    <<"(?:\\bfiscal\\b|tax)", Alt(<<Cat(<<B, L("fiscal"), B>>), L("tax")>>)>>,
    <<"(?:\\btreasury\\b|\\btesorer[i1]a\\b|cash management)", Alt(<<Cat(<<B, L("treasury"), B>>), Cat(<<B, L("tesorer"), Cls({"i", "1"}), L("a"), B>>), L("cash management")>>)>>,
    <<"(?:accounts? receivable|cuentas? por cobrar|\\bar\\b)", Alt(<<Cat(<<L("account"), Opt(L("s")), L(" receivable")>>), Cat(<<L("cuenta"), Opt(L("s")), L(" por cobrar")>>), Cat(<<B, L("ar"), B>>)>>)>>,
    <<"(?:accounts? payable|cuentas? por pagar|\\bap\\b)", Alt(<<Cat(<<L("account"), Opt(L("s")), L(" payable")>>), Cat(<<L("cuenta"), Opt(L("s")), L(" por pagar")>>), Cat(<<B, L("ap"), B>>)>>)>>,
    <<"(?:\\bfp&a\\b|financial planning|planning & analysis)", Alt(<<Cat(<<B, L("fp&a"), B>>), L("financial planning"), L("planning & analysis")>>)>>,
    <<"(?:investment|inversiones|asset management|portafolio|portfolio)", Alt(<<L("investment"), L("inversiones"), L("asset management"), L("portafolio"), L("portfolio")>>)>>,
    <<"(?:audit(?:ing)?|auditor[i1]a|auditor)", Alt(<<Cat(<<L("audit"), Opt(L("ing"))>>), Cat(<<L("auditor"), Cls({"i", "1"}), L("a")>>), L("auditor")>>)>>,
    <<"(?:risk|riesgo)", Alt(<<L("risk"), L("riesgo")>>)>>,
    <<"(?:director\\s+financiero|financial\\s+director)", Alt(<<Cat(<<L("director"), Plus(Ws), L("financiero")>>), Cat(<<L("financial"), Plus(Ws), L("director")>>)>>)>>,
    <<"(?:recursos humanos|human resources|\\bhr\\b|\\bpeople\\b)", Alt(<<L("recursos humanos"), L("human resources"), Cat(<<B, L("hr"), B>>), Cat(<<B, L("people"), B>>)>>)>>,
    <<"(?:talent|talento|people operations|people ops|people partner)", Alt(<<L("talent"), L("talento"), L("people operations"), L("people ops"), L("people partner")>>)>>,
    <<"(?:recruit(ing|er)?|reclutamiento|selecci[o0]n|acquisition|acquisitions?)", Alt(<<Cat(<<L("recruit"), Opt(Alt(<<L("ing"), L("er")>>))>>), L("reclutamiento"), Cat(<<L("selecci"), Cls({"o", "0"}), L("n")>>), L("acquisition"), Cat(<<L("acquisition"), Opt(L("s"))>>)>>)>>,
    <<"(?:onboarding|inducci[o0]n)", Alt(<<L("onboarding"), Cat(<<L("inducci"), Cls({"o", "0"}), L("n")>>)>>)>>,
    <<"(?:capacita(c|6)[i1]on|training|learning|l&d|learning and development)", Alt(<<Cat(<<L("capacita"), Alt(<<L("c"), L("6")>>), Cls({"i", "1"}), L("on")>>), L("training"), L("learning"), L("l&d"), L("learning and development")>>)>>,
    <<"(?:compensation|benefits|compensaciones|beneficios|c&b|total rewards)", Alt(<<L("compensation"), L("benefits"), L("compensaciones"), L("beneficios"), L("c&b"), L("total rewards")>>)>>,
    <<"(?:payroll|n[o0]mina)", Alt(<<L("payroll"), Cat(<<L("n"), Cls({"o", "0"}), L("mina")>>)>>)>>,
    <<"(?:labor relations|relaciones laborales)", Alt(<<L("labor relations"), L("relaciones laborales")>>)>>,
    <<"(?:performance management|desempe[7n]o|evaluaci[o0]n de desempe7o)", Alt(<<L("performance management"), Cat(<<L("desempe"), Cls({"n", "7"}), L("o")>>), Cat(<<L("evaluaci"), Cls({"o", "0"}), L("n de desempe7o")>>)>>)>>,
    <<"(?:culture|cultura|engagement|clima)", Alt(<<L("culture"), L("cultura"), L("engagement"), L("clima")>>)>>,
    <<"(?:director\\s+de\\s+rr\\.?\\s*hh\\.?|director\\s+de\\s+recursos\\s+humanos)", Alt(<<Cat(<<L("director"), Plus(Ws), L("de"), Plus(Ws), L("rr"), Opt(L(".")), Star(Ws), L("hh"), Opt(L("."))>>), Cat(<<L("director"), Plus(Ws), L("de"), Plus(Ws), L("recursos"), Plus(Ws), L("humanos")>>)>>)>>,
    <<"(?:recruit(ing|er)?|selecci[o0]n|acquisition|acquisitions?)", Alt(<<Cat(<<L("recruit"), Opt(Alt(<<L("ing"), L("er")>>))>>), Cat(<<L("selecci"), Cls({"o", "0"}), L("n")>>), L("acquisition"), Cat(<<L("acquisition"), Opt(L("s"))>>)>>)>>,
    <<"(?:hrbp|people partner|business partner)", Alt(<<L("hrbp"), L("people partner"), L("business partner")>>)>>,
    <<"(?:compensation|benefits|total rewards|compensaciones|beneficios)", Alt(<<L("compensation"), L("benefits"), L("total rewards"), L("compensaciones"), L("beneficios")>>)>>,
    <<"(?:training|learning|l&d|learning and development|capacitaci[o0]n)", Alt(<<L("training"), L("learning"), L("l&d"), L("learning and development"), Cat(<<L("capacitaci"), Cls({"o", "0"}), L("n")>>)>>)>>,
    <<"(?:legal|jur[i1]dico|law|legal affairs|asuntos legales)", Alt(<<L("legal"), Cat(<<L("jur"), Cls({"i", "1"}), L("dico")>>), L("law"), L("legal affairs"), L("asuntos legales")>>)>>,
    <<"(?:contracts?|contratos?)", Alt(<<Cat(<<L("contract"), Opt(L("s"))>>), Cat(<<L("contrato"), Opt(L("s"))>>)>>)>>,
    <<"(?:compliance|cumplimiento|regulatorio|regulatory|gobernanza|governance)", Alt(<<L("compliance"), L("cumplimiento"), L("regulatorio"), L("regulatory"), L("gobernanza"), L("governance")>>)>>,
    <<"(?:counsel|abogad[oa]s?|asesor(?:a)? legal|legal counsel|general counsel|gc\\b)", Alt(<<L("counsel"), Cat(<<L("abogad"), Cls({"a", "o"}), Opt(L("s"))>>), Cat(<<L("asesor"), Opt(L("a")), L(" legal")>>), L("legal counsel"), L("general counsel"), Cat(<<L("gc"), B>>)>>)>>,
    <<"(?:ip|propiedad intelectual|patentes|marcas|copyright)", Alt(<<L("ip"), L("propiedad intelectual"), L("patentes"), L("marcas"), L("copyright")>>)>>,
    <<"(?:corporate|societario|corporativo|m&a|fusiones|adquisiciones)", Alt(<<L("corporate"), L("societario"), L("corporativo"), L("m&a"), L("fusiones"), L("adquisiciones")>>)>>,
    <<"(?:litigation|litigios|disputes|arbitraje|arbitration)", Alt(<<L("litigation"), L("litigios"), L("disputes"), L("arbitraje"), L("arbitration")>>)>>,
    <<"(?:privacy|privacidad|datos personales|gdpr|ccpa|data protection)", Alt(<<L("privacy"), L("privacidad"), L("datos personales"), L("gdpr"), L("ccpa"), L("data protection")>>)>>,
    <<"(?:general counsel|gc\\b)", Alt(<<L("general counsel"), Cat(<<L("gc"), B>>)>>)>>,
    <<"(?:counsel|abogad[oa]s?|asesor(?:a)? legal)", Alt(<<L("counsel"), Cat(<<L("abogad"), Cls({"a", "o"}), Opt(L("s"))>>), Cat(<<L("asesor"), Opt(L("a")), L(" legal")>>)>>)>>,
    <<"(?:compliance|cumplimiento|regulatorio|regulatory|governance|gobernanza)", Alt(<<L("compliance"), L("cumplimiento"), L("regulatorio"), L("regulatory"), L("governance"), L("gobernanza")>>)>>,
    <<"(?:privacy|privacidad|gdpr|ccpa|data protection)", Alt(<<L("privacy"), L("privacidad"), L("gdpr"), L("ccpa"), L("data protection")>>)>>,
    <<"(?:operaciones|operations|ops\\b)", Alt(<<L("operaciones"), L("operations"), Cat(<<L("ops"), B>>)>>)>>,
    <<"(?:log[1i]stica|logistics|last mile|almac[e3]n|warehouse)", Alt(<<Cat(<<L("log"), Cls({"i", "1"}), L("stica")>>), L("logistics"), L("last mile"), Cat(<<L("almac"), Cls({"e", "3"}), L("n")>>), L("warehouse")>>)>>,
    <<"(?:supply ?chain|cadena de suministro|planning|s&op|procurement|compras)", Alt(<<Cat(<<L("supply"), Opt(L(" ")), L("chain")>>), L("cadena de suministro"), L("planning"), L("s&op"), L("procurement"), L("compras")>>)>>,
    <<"(?:fulfillment|operaci[o0]n de pedidos|preparaci[o0]n de pedidos)", Alt(<<L("fulfillment"), Cat(<<L("operaci"), Cls({"o", "0"}), L("n de pedidos")>>), Cat(<<L("preparaci"), Cls({"o", "0"}), L("n de pedidos")>>)>>)>>,
    <<"(?:servicio al cliente|customer service|soporte|support)", Alt(<<L("servicio al cliente"), L("customer service"), L("soporte"), L("support")>>)>>,
    <<"(?:quality|calidad|qa operaciones)", Alt(<<L("quality"), L("calidad"), L("qa operaciones")>>)>>,
    <<"(?:seguridad e higiene|hse|ehs|health & safety|seguridad industrial)", Alt(<<L("seguridad e higiene"), L("hse"), L("ehs"), L("health & safety"), L("seguridad industrial")>>)>>,
    <<"(?:log[1i]stica|logistics|warehouse|almac[e3]n|last mile)", Alt(<<Cat(<<L("log"), Cls({"i", "1"}), L("stica")>>), L("logistics"), L("warehouse"), Cat(<<L("almac"), Cls({"e", "3"}), L("n")>>), L("last mile")>>)>>,
    <<"(?:supply ?chain|cadena de suministro|procurement|compras|planning|s&op)", Alt(<<Cat(<<L("supply"), Opt(L(" ")), L("chain")>>), L("cadena de suministro"), L("procurement"), L("compras"), L("planning"), L("s&op")>>)>>,
    <<"(?:customer service|servicio al cliente|soporte|support)", Alt(<<L("customer service"), L("servicio al cliente"), L("soporte"), L("support")>>)>>,
    <<"(?:health & safety|seguridad e higiene|hse|ehs|seguridad industrial)", Alt(<<L("health & safety"), L("seguridad e higiene"), L("hse"), L("ehs"), L("seguridad industrial")>>)>>,
    <<"(?:director\\s+industrial|industrial\\s+director)", Alt(<<Cat(<<L("director"), Plus(Ws), L("industrial")>>), Cat(<<L("industrial"), Plus(Ws), L("director")>>)>>)>>,
    <<"(?:product management|gesti0n de producto|product owner|po\\b)", Alt(<<L("product management"), L("gesti0n de producto"), L("product owner"), Cat(<<L("po"), B>>)>>)>>,
    <<"(?:product development|desarrollo de producto)", Alt(<<L("product development"), L("desarrollo de producto")>>)>>,
    <<"(?:product strategy|estrategia de producto)", Alt(<<L("product strategy"), L("estrategia de producto")>>)>>,
    <<"(?:portfolio|portafolio)", Alt(<<L("portfolio"), L("portafolio")>>)>>,
    <<"(?:product design|dise7o de producto|ux|ui|user experience|user interface)", Alt(<<L("product design"), L("dise7o de producto"), L("ux"), L("ui"), L("user experience"), L("user interface")>>)>>,
    <<"(?:user research|investigaci0n|market research)", Alt(<<L("user research"), L("investigaci0n"), L("market research")>>)>>,
    <<"(?:product manager|pm\\b|gestor de producto)", Alt(<<L("product manager"), Cat(<<L("pm"), B>>), L("gestor de producto")>>)>>,
    <<"(?:product owner|po\\b|propietario de producto)", Alt(<<L("product owner"), Cat(<<L("po"), B>>), L("propietario de producto")>>)>>,
    <<"(?:product director|director de producto)", Alt(<<L("product director"), L("director de producto")>>)>>,
    <<"(?:ux|ui|user experience|user interface|dise7o de producto)", Alt(<<L("ux"), L("ui"), L("user experience"), L("user interface"), L("dise7o de producto")>>)>>,
    <<"(?:user research|investigaci0n de usuario)", Alt(<<L("user research"), L("investigaci0n de usuario")>>)>>,
    <<"(?:project management|gesti0n de proyectos|project manager|pm\\b)", Alt(<<L("project management"), L("gesti0n de proyectos"), L("project manager"), Cat(<<L("pm"), B>>)>>)>>,
    <<"(?:planning|planificaci0n|schedule|cronograma)", Alt(<<L("planning"), L("planificaci0n"), L("schedule"), L("cronograma")>>)>>,
    <<"(?:coordination|coordinaci0n|coordinator)", Alt(<<L("coordination"), L("coordinaci0n"), L("coordinator")>>)>>,
    <<"(?:tracking|seguimiento|monitoring|control)", Alt(<<L("tracking"), L("seguimiento"), L("monitoring"), L("control")>>)>>,
    <<"(?:implementation|implementaci0n|deployment|despliegue)", Alt(<<L("implementation"), L("implementaci0n"), L("deployment"), L("despliegue")>>)>>,
    <<"(?:agile|scrum|waterfall|metodolog1as|pmi|prince2)", Alt(<<L("agile"), L("scrum"), L("waterfall"), L("metodolog1as"), L("pmi"), L("prince2")>>)>>,
    <<"(?:project manager|pm\\b|gestor de proyectos|jefe de proyecto)", Alt(<<L("project manager"), Cat(<<L("pm"), B>>), L("gestor de proyectos"), L("jefe de proyecto")>>)>>,
    <<"(?:project director|director de proyectos)", Alt(<<L("project director"), L("director de proyectos")>>)>>,
    <<"(?:pmo\\s+director|director\\s+pmo|director de pmo)", Alt(<<Cat(<<L("pmo"), Plus(Ws), L("director")>>), Cat(<<L("director"), Plus(Ws), L("pmo")>>), L("director de pmo")>>)>>,
    <<"(?:project coordinator|coordinador de proyectos)", Alt(<<L("project coordinator"), L("coordinador de proyectos")>>)>>,
    <<"(?:project lead|l1der de proyecto)", Alt(<<L("project lead"), L("l1der de proyecto")>>)>>,
    <<"(?:pmo|project management office|oficina de proyectos)", Alt(<<L("pmo"), L("project management office"), L("oficina de proyectos")>>)>>,
    <<"(?:scrum master|agile coach)", Alt(<<L("scrum master"), L("agile coach")>>)>>,
    <<"(?:pmo\\s+senior|senior\\s+pmo)", Alt(<<Cat(<<L("pmo"), Plus(Ws), L("senior")>>), Cat(<<L("senior"), Plus(Ws), L("pmo")>>)>>)>>,
    <<"\\bmarket\\b", Cat(<<B, L("market"), B>>)>>,
    <<"\\bcontent\\b|\\bcontenido\\b", Alt(<<Cat(<<B, L("content"), B>>), Cat(<<B, L("contenido"), B>>)>>)>>,
    <<"\\bgrowth\\b|\\bcrecimiento\\b", Alt(<<Cat(<<B, L("growth"), B>>), Cat(<<B, L("crecimiento"), B>>)>>)>>,
    <<"\\bcampaign\\b|\\bcampa7a\\b", Alt(<<Cat(<<B, L("campaign"), B>>), Cat(<<B, L("campa7a"), B>>)>>)>>,
    <<"\\bsocial\\b|\\bmedia\\b", Alt(<<Cat(<<B, L("social"), B>>), Cat(<<B, L("media"), B>>)>>)>>,
    <<"\\btrade\\b", Cat(<<B, L("trade"), B>>)>>,
    <<"\\bads\\b", Cat(<<B, L("ads"), B>>)>>,
    <<"\\barea\\b", Cat(<<B, L("area"), B>>)>>,
    <<"\\baccount\\b", Cat(<<B, L("account"), B>>)>>,
    <<"\\btechnical\\b|\\btecnico\\b", Alt(<<Cat(<<B, L("technical"), B>>), Cat(<<B, L("tecnico"), B>>)>>)>>,
    <<"\\bengineering\\b|\\bingenier[1i]a\\b|\\bengineer\\b", Alt(<<Cat(<<B, L("engineering"), B>>), Cat(<<B, L("ingenier"), Cls({"i", "1"}), L("a"), B>>), Cat(<<B, L("engineer"), B>>)>>)>>,
    <<"\\bproject\\b|\\bproyecto\\b", Alt(<<Cat(<<B, L("project"), B>>), Cat(<<B, L("proyecto"), B>>)>>)>>,
    <<"\\bqa\\b|\\bquality\\b", Alt(<<Cat(<<B, L("qa"), B>>), Cat(<<B, L("quality"), B>>)>>)>>,
    <<"\\bde tecnolog[1i]a\\b", Cat(<<B, L("de tecnolog"), Cls({"i", "1"}), L("a"), B>>)>>,
    <<"\\borganizaci[o0]n\\b", Cat(<<B, L("organizaci"), Cls({"o", "0"}), L("n"), B>>)>>,
    <<"\\bde la informaci[o0]n\\b", Cat(<<B, L("de la informaci"), Cls({"o", "0"}), L("n"), B>>)>>,
    <<"\\bde proyectos\\b", Cat(<<B, L("de proyectos"), B>>)>>,
    <<"\\bdata\\b|\\banalytics\\b|\\bscience\\b", Alt(<<Cat(<<B, L("data"), B>>), Cat(<<B, L("analytics"), B>>), Cat(<<B, L("science"), B>>)>>)>>,
    <<"\\bdatabase\\b|\\bdb\\b", Alt(<<Cat(<<B, L("database"), B>>), Cat(<<B, L("db"), B>>)>>)>>,
    <<"\\bsystem\\b|\\bnetwork\\b", Alt(<<Cat(<<B, L("system"), B>>), Cat(<<B, L("network"), B>>)>>)>>,
    <<"\\bsupport\\b|\\bsoporte\\b", Alt(<<Cat(<<B, L("support"), B>>), Cat(<<B, L("soporte"), B>>)>>)>>,
    <<"\\bhelp ?desk\\b|\\bservice ?desk\\b", Alt(<<Cat(<<B, L("help"), Opt(L(" ")), L("desk"), B>>), Cat(<<B, L("service"), Opt(L(" ")), L("desk"), B>>)>>)>>,
    <<"\\bdesarrollo ?de ?negocio\\b|\\bbusiness ?development\\b", Alt(<<Cat(<<B, L("desarrollo"), Opt(L(" ")), L("de"), Opt(L(" ")), L("negocio"), B>>), Cat(<<B, L("business"), Opt(L(" ")), L("development"), B>>)>>)>>,
    <<"\\bventas\\b", Cat(<<B, L("ventas"), B>>)>>,
    <<"\\bsales\\b", Cat(<<B, L("sales"), B>>)>>,
    <<"\\bpartner(ship|s)?\\b", Cat(<<B, L("partner"), Opt(Alt(<<L("ship"), L("s")>>)), B>>)>>,
    <<"\\bfinance\\b|\\bfinancial\\b|\\bfinanzas?\\b|\\bfinanciera\\b|\\bfinanciero\\b", Alt(<<Cat(<<B, L("finance"), B>>), Cat(<<B, L("financial"), B>>), Cat(<<B, L("finanza"), Opt(L("s")), B>>), Cat(<<B, L("financiera"), B>>), Cat(<<B, L("financiero"), B>>)>>)>>,
    <<"\\baccounting\\b|\\bcontabilidad\\b|\\baccount\\b", Alt(<<Cat(<<B, L("accounting"), B>>), Cat(<<B, L("contabilidad"), B>>), Cat(<<B, L("account"), B>>)>>)>>,
    <<"\\bcontador(a)?\\b|\\bcontable(s)?\\b|\\binvestment\\b", Alt(<<Cat(<<B, L("contador"), Opt(L("a")), B>>), Cat(<<B, L("contable"), Opt(L("s")), B>>), Cat(<<B, L("investment"), B>>)>>)>>,
    <<"\\bplanner\\b|\\bplanning\\b", Alt(<<Cat(<<B, L("planner"), B>>), Cat(<<B, L("planning"), B>>)>>)>>,
    <<"\\btreasury\\b|\\btesorer1a\\b", Alt(<<Cat(<<B, L("treasury"), B>>), Cat(<<B, L("tesorer1a"), B>>)>>)>>,
    <<"\\bcredit\\b|\\bcr3dito\\b", Alt(<<Cat(<<B, L("credit"), B>>), Cat(<<B, L("cr3dito"), B>>)>>)>>,
    <<"\\bfiscal\\b", Cat(<<B, L("fiscal"), B>>)>>,
    <<"\\badministraci[o0]n\\b|\\badministrador(a)?\\b|\\badministrativ[oa]s?\\b", Alt(<<Cat(<<B, L("administraci"), Cls({"o", "0"}), L("n"), B>>), Cat(<<B, L("administrador"), Opt(L("a")), B>>), Cat(<<B, L("administrativ"), Cls({"a", "o"}), Opt(L("s")), B>>)>>)>>,
    <<"\\bkey\\b", Cat(<<B, L("key"), B>>)>>,
    <<"(?:recursos humanos|human resources|\\bhr\\b|\\bpeople\\b|talent|\\brrhh\\b|\\brr\\.?\\s*hh\\.?)", Alt(<<L("recursos humanos"), L("human resources"), Cat(<<B, L("hr"), B>>), Cat(<<B, L("people"), B>>), L("talent"), Cat(<<B, L("rrhh"), B>>), Cat(<<B, L("rr"), Opt(L(".")), Star(Ws), L("hh"), Opt(L("."))>>)>>)>>,
    <<"\\brecruit(er|ing)?\\b|\\breclutamiento\\b", Alt(<<Cat(<<B, L("recruit"), Opt(Alt(<<L("er"), L("ing")>>)), B>>), Cat(<<B, L("reclutamiento"), B>>)>>)>>,
    <<"\\bcompensation\\b|\\bcompensaciones\\b", Alt(<<Cat(<<B, L("compensation"), B>>), Cat(<<B, L("compensaciones"), B>>)>>)>>,
    <<"\\btraining\\b|\\bcapacitaci[o0]n\\b", Alt(<<Cat(<<B, L("training"), B>>), Cat(<<B, L("capacitaci"), Cls({"o", "0"}), L("n"), B>>)>>)>>,
    <<"\\bpayroll\\b|\\bn[o0]mina\\b", Alt(<<Cat(<<B, L("payroll"), B>>), Cat(<<B, L("n"), Cls({"o", "0"}), L("mina"), B>>)>>)>>,
    <<"(?:legal|jur[i1]dico|law|legal affairs|asuntos legales|compliance|contracts?)", Alt(<<L("legal"), Cat(<<L("jur"), Cls({"i", "1"}), L("dico")>>), L("law"), L("legal affairs"), L("asuntos legales"), L("compliance"), Cat(<<L("contract"), Opt(L("s"))>>)>>)>>,
    <<"(?:operaciones|operations|ops|log[1i]stica|logistics|supply ?chain|fulfillment|warehouse|almac[e3]n|industrial)", Alt(<<L("operaciones"), L("operations"), L("ops"), Cat(<<L("log"), Cls({"i", "1"}), L("stica")>>), L("logistics"), Cat(<<L("supply"), Opt(L(" ")), L("chain")>>), L("fulfillment"), L("warehouse"), Cat(<<L("almac"), Cls({"e", "3"}), L("n")>>), L("industrial")>>)>>,
    <<"(?:product|producto|product management|gesti0n de producto)", Alt(<<L("product"), L("producto"), L("product management"), L("gesti0n de producto")>>)>>,
    <<"(?:project|proyecto|project management|gesti0n de proyectos|pm\\b|pmo|scrum|agile)", Alt(<<L("project"), L("proyecto"), L("project management"), L("gesti0n de proyectos"), Cat(<<L("pm"), B>>), L("pmo"), L("scrum"), L("agile")>>)>>,
    <<"\\barea\\s+(director|manager|gerente)\\b", Cat(<<B, L("area"), Plus(Ws), Alt(<<L("director"), L("manager"), L("gerente")>>), B>>)>>,
    <<"\\bassociate\\s+director\\b", Cat(<<B, L("associate"), Plus(Ws), L("director"), B>>)>>,
    <<"\\bdirector\\s+of\\s+administration\\b", Cat(<<B, L("director"), Plus(Ws), L("of"), Plus(Ws), L("administration"), B>>)>>,
    <<"\\bdirector\\s+regional\\b", Cat(<<B, L("director"), Plus(Ws), L("regional"), B>>)>>,
    <<"\\bregional\\s+director\\b", Cat(<<B, L("regional"), Plus(Ws), L("director"), B>>)>>
  >>

\* The regular expression library: compile[pattern] is the compiled form of
\* a pattern of the program, RegexTable[a] to RegexTable[b] in compiled(a, b).
RECURSIVE compiled(_, _)
compiled(a, b) ==
  IF a = b THEN RegexTable[a][1] :> RegexTable[a][2]
  ELSE LET m == (a + b) \div 2 IN compiled(a, m) @@ compiled(m + 1, b)

\* The patterns of callers that no table of the program holds.
CallerRegexTable ==
  ("\\bastronaut\\b" :> Cat(<<B, L("astronaut"), B>>))
    @@ ("\\bpilot\\b" :> Cat(<<B, L("pilot"), B>>))

compile == compiled(1, Len(RegexTable)) @@ CallerRegexTable

\* \b at position i: exactly one of the characters around it is a word character.
AtBoundary(text, i) ==
  LET before == i > 1 /\ CharAt(text, i - 1) \in WordChars
      after  == i <= Len(text) /\ CharAt(text, i) \in WordChars
  IN before # after

\* re_ends(ast, S, text): the positions a match of ast can end at (one past
\* its last character) when it starts at a position of S.
RECURSIVE re_ends(_, _, _), re_seq(_, _, _, _), re_star(_, _, _, _)
re_ends(ast, S, text) ==
  LET tag == ast[1]
      n   == Len(text)
  IN CASE tag = "L" -> LET k == Len(ast[2])
                       IN {j + k : j \in {i \in S : i + k - 1 <= n /\ SubSeq(text, i, i + k - 1) = ast[2]}}
       [] tag = "C" -> {j + 1 : j \in {i \in S : i <= n /\ CharAt(text, i) \in ast[2]}}
       [] tag = "S" -> {j + 1 : j \in {i \in S : i <= n /\ CharAt(text, i) \in Whitespace}}
       [] tag = "N" -> {j + 1 : j \in {i \in S : i <= n}}
       [] tag = "B" -> {i \in S : AtBoundary(text, i)}
       [] tag = "BOL" -> S \cap {1}
       [] tag = "EOL" -> S \cap {n + 1}
       [] tag = "Q" -> re_seq(ast[2], 1, S, text)
       [] tag = "A" -> UNION {re_ends(ast[2][k], S, text) : k \in DOMAIN ast[2]}
       [] tag = "O" -> S \cup re_ends(ast[2], S, text)
       [] tag = "K" -> re_star(ast[2], S, S, text)
       [] tag = "P" -> LET F == re_ends(ast[2], S, text) IN re_star(ast[2], F, F, text)
re_seq(items, k, S, text) ==
  IF k > Len(items) \/ S = {} THEN S
  ELSE re_seq(items, k + 1, re_ends(items[k], S, text), text)
re_star(sub, R, F, text) ==
  LET G == re_ends(sub, F, text) \ R
  IN IF G = {} THEN R ELSE re_star(sub, R \cup G, G, text)

\* re_compile[pattern] is re.compile(pattern, re.IGNORECASE), which raises
\* re.error for a string that is no pattern.
compiles(pattern) == pattern \in DOMAIN re_compile

\* The compiled pattern; it is _compiled_regex_cache[pattern] from then on.
get_compiled_regex(pattern) == re_compile[pattern]

\* get_compiled_regex(pattern).search(text)
re_search(pattern, text) ==
  re_ends(get_compiled_regex(pattern), 1 .. (Len(text) + 1), text) # {}

\* The index of the first pattern of a list that matches text, 0 for none.
first_match(text, patterns) ==
  LET hits == {i \in DOMAIN patterns : re_search(patterns[i], text)}
  IN IF hits = {} THEN 0 ELSE Min(hits)

any_match(text, patterns) == \E i \in DOMAIN patterns : re_search(patterns[i], text)

\* The loop of any_match on patterns that may not compile: the index of the
\* first pattern that matches text and the index of the first one that does
\* not compile, Len(patterns) + 1 for none.  The loop ends at the smaller.
first_hit(text, patterns) ==
  Min({i \in DOMAIN patterns : compiles(patterns[i]) /\ re_search(patterns[i], text)}
        \cup {Len(patterns) + 1})

first_error(patterns) ==
  Min({i \in DOMAIN patterns : ~compiles(patterns[i])} \cup {Len(patterns) + 1})

\* any_match(text, patterns) returns True.
any_match_hit(text, patterns) == first_hit(text, patterns) < first_error(patterns)

\* any_match(text, patterns) raises re.error.
any_match_raises(text, patterns) ==
  /\ first_error(patterns) <= Len(patterns)
  /\ first_error(patterns) < first_hit(text, patterns)

\* The patterns any_match(text, patterns) passes to get_compiled_regex and
\* that compile: they are keys of _compiled_regex_cache when it returns.
any_match_compiled(text, patterns) ==
  {patterns[i] : i \in 1 .. Min({first_hit(text, patterns), first_error(patterns) - 1,
                                 Len(patterns)})}

\* The index of the first list of patterns one of which matches text, 0 for none.
first_any(text, lists) ==
  LET hits == {i \in DOMAIN lists : any_match(text, lists[i])}
  IN IF hits = {} THEN 0 ELSE Min(hits)

Column(table, k) == [i \in DOMAIN table |-> table[i][k]]

(***************************************************************************)
(* The rule tables, in the order of the source.                            *)
(***************************************************************************)
singular_map == <<
    <<"CEOs", "CEO">>,
    <<"CFOs", "CFO">>,
    <<"CTOs", "CTO">>,
    <<"CMOs", "CMO">>,
    <<"COOs", "COO">>,
    <<"CIOs", "CIO">>,
    <<"CHROs", "CHRO">>,
    <<"CSOs (Sales)", "CSO (Sales)">>,
    <<"CROs", "CRO">>,
    <<"CDOs", "CDO">>,
    <<"CAOs", "CAO">>,
    <<"CQAs", "CQA">>,
    <<"CISOs", "CISO">>,
    <<"CCOs", "CCO">>,
    <<"propietarios", "propietario">>,
    <<"directores", "director">>,
    <<"gerentes", "gerente">>,
    <<"managers", "manager">>,
    <<"vicepresidentes", "vicepresidente">>,
    <<"ejecutivos", "ejecutivo">>,
    <<"coordinadores", "coordinador">>,
    <<"responsables", "responsable">>,
    <<"estrategas", "estratega">>,
    <<"gestores", "gestor">>,
    <<"supervisores", "supervisor">>,
    <<"administrativos", "administrativo">>,
    <<"directores generales", "director general">>,
    <<"directores asociados", "director asociado">>,
    <<"directores regionales", "director regional">>,
    <<"jefes de departamento", "jefe de departamento">>,
    <<"directores de administraci0n", "director de administraci0n">>,
    <<"gerentes de tecnolog1a", "gerente de tecnolog1a">>,
    <<"gerentes de tecnologia", "gerente de tecnologia">>,
    <<"gerentes de ti", "gerente de ti">>,
    <<"administradores de sistemas", "administrador de sistemas">>,
    <<"administradores de redes", "administrador de redes">>,
    <<"l1deres de qa", "l1der de qa">>,
    <<"project managers", "project manager">>,
    <<"gerentes t3cnicos", "gerente t3cnico">>,
    <<"directores t3cnicos", "director t3cnico">>,
    <<"l1deres t3cnicos", "l1der t3cnico">>,
    <<"analistas t3cnicos", "analista t3cnico">>,
    <<"gerentes de soporte", "gerente de soporte">>,
    <<"responsables de soporte al cliente", "responsable de soporte al cliente">>,
    <<"gerentes de marketing", "gerente de marketing">>,
    <<"gerentes de marca", "gerente de marca">>,
    <<"gerentes de contenido", "gerente de contenido">>,
    <<"equipos de marketing", "equipo de marketing">>,
    <<"directores de marketing", "director de marketing">>,
    <<"gerentes de ventas", "gerente de ventas">>,
    <<"account managers", "account manager">>,
    <<"account executives", "account executive">>,
    <<"directores de ventas", "director de ventas">>,
    <<"gerentes de finanzas", "gerente de finanzas">>,
    <<"directores financieros", "director financiero">>,
    <<"responsables de control de gesti0n", "responsable de control de gesti0n">>,
    <<"responsables contables", "responsable contable">>,
    <<"responsables de tesorer1a", "responsable de tesorer1a">>,
    <<"responsables fiscales", "responsable fiscal">>,
    <<"responsables de cuentas por cobrar", "responsable de cuentas por cobrar">>,
    <<"responsables de cuentas por pagar", "responsable de cuentas por pagar">>,
    <<"responsables de FP&A", "responsable de FP&A">>,
    <<"responsables de proyectos", "responsable de proyectos">>,
    <<"responsables de operaciones", "responsable de operaciones">>,
    <<"gerentes de recursos humanos", "gerente de recursos humanos">>,
    <<"gerentes de rrhh", "gerente de rrhh">>,
    <<"directores de rrhh", "director de rrhh">>,
    <<"reclutadores", "reclutador">>,
    <<"business partners de rr. hh.", "business partner de rr. hh.">>,
    <<"responsables de n0mina", "responsable de n0mina">>,
    <<"responsables de compensaciones y beneficios", "responsable de compensaciones y beneficios">>,
    <<"responsables de capacitaci0n", "responsable de capacitaci0n">>,
    <<"gerentes legales", "gerente legal">>,
    <<"gerentes de operaciones", "gerente de operaciones">>,
    <<"responsables de supply chain", "responsable de log1stica">>,
    <<"gerentes de producto", "gerente de producto">>,
    <<"product managers", "product manager">>,
    <<"gerentes de proyectos", "gerente de proyectos">>,
    <<"directores de proyectos", "director de proyectos">>,
    <<"directores de PMO", "director de PMO">>,
    <<"vice presidents", "vicepresidente">>,
    <<"presidents", "presidente">>,
    <<"presidentes", "presidente">>,
    <<"head of departments", "jefe de departamento">>,
    <<"heads of department", "jefe de departamento">>,
    <<"PMO directors", "director de PMO">>,
    <<"general counsels", "general counsel">>,
    <<"asesores legales", "asesor legal">>,
    <<"responsables de contratos", "responsable de contratos">>,
    <<"responsables de compliance", "responsable de compliance">>,
    <<"responsables de privacidad", "responsable de privacidad">>,
    <<"responsables de log1stica", "responsable de log1stica">>,
    <<"responsables de fulfillment", "responsable de fulfillment">>,
    <<"responsables de servicio al cliente", "responsable de servicio al cliente">>,
    <<"responsables de seguridad e higiene", "responsable de seguridad e higiene">>,
    <<"directores industriales", "director industrial">>,
    <<"directores de operaciones", "director de operaciones">>,
    <<"supervisores de operaciones", "supervisor de operaciones">>,
    <<"directores de producci0n", "director de producci0n">>,
    <<"product owners", "product owner">>,
    <<"directores de producto", "director de producto">>,
    <<"responsables de dise7o de producto", "responsable de dise7o de producto">>,
    <<"investigadores de usuario", "investigador de usuario">>,
    <<"coordinadores de proyectos", "coordinador de proyectos">>,
    <<"l1deres de proyectos", "l1der de proyectos">>,
    <<"responsables de PMO", "responsable de PMO">>,
    <<"scrum masters", "scrum master">>,
    <<"seniors de PMO", "senior de PMO">>
  >>

FAST_PATTERNS == <<
    <<"\\bceo\\b", "CEOs", "Ejecutivo">>,
    <<"\\bcto\\b", "CTOs", "Tecnologia">>,
    <<"\\bcfo\\b", "CFOs", "Ejecutivo">>,
    <<"\\bcmo\\b", "CMOs", "Marketing">>,
    <<"\\bcoo\\b", "COOs", "Ejecutivo">>,
    <<"\\bcio\\b", "CIOs", "Tecnologia">>,
    <<"\\bchro\\b", "CHROs", "RR.HH.">>,
    <<"\\bcso\\b", "CSOs", "Ventas">>,
    <<"\\bcro\\b", "CROs", "Ventas">>,
    <<"^marketing\\s+manager$", "gerentes de marketing", "Marketing">>,
    <<"^sales\\s+manager$", "gerentes de ventas", "Ventas">>,
    <<"^hr\\s+manager$", "gerentes de recursos humanos", "RR.HH.">>,
    <<"^it\\s+manager$", "gerentes de tecnologia", "Tecnologia">>,
    <<"^product\\s+manager$", "product managers", "Producto">>,
    <<"^project\\s+manager$", "project managers", "Tecnologia">>,
    <<"^account\\s+manager$", "account managers", "Ventas">>,
    <<"^brand\\s+manager$", "gerentes de marca", "Marketing">>,
    <<"^operations\\s+manager$", "gerentes de operaciones", "Operaciones">>,
    <<"^gerentes?\\s+de\\s+marketing$", "gerentes de marketing", "Marketing">>,
    <<"^gerentes?\\s+de\\s+ventas$", "gerentes de ventas", "Ventas">>,
    <<"^gerentes?\\s+de\\s+recursos\\s+humanos$", "gerentes de recursos humanos", "RR.HH.">>,
    <<"^gerentes?\\s+de\\s+tecnolog[1i]a$", "gerentes de tecnologia", "Tecnologia">>,
    <<"^gerentes?\\s+de\\s+producto$", "gerentes de producto", "Producto">>,
    <<"^gerentes?\\s+de\\s+proyectos$", "gerentes de proyectos", "Proyectos">>,
    <<"^directores?\\s+de\\s+marketing$", "directores de marketing", "Marketing">>,
    <<"^directores?\\s+de\\s+ventas$", "directores de ventas", "Ventas">>,
    <<"^directores?\\s+de\\s+finanzas$", "directores de finanzas", "Finanzas">>,
    <<"^software\\s+engineer$", "encargados de tecnologia", "Tecnologia">>,
    <<"^data\\s+scientist$", "encargados de tecnologia", "Tecnologia">>,
    <<"^system\\s+administrator$", "administradores de sistemas", "Tecnologia">>,
    <<"^chief\\s+marketing$", "CMOs", "Marketing">>,
    <<"^marketing\\s+team$", "equipos de marketing", "Marketing">>,
    <<"^marketing\\s+director$", "directores de marketing", "Marketing">>,
    <<"^sales\\s+director$", "directores de ventas", "Ventas">>,
    <<"^technology\\s+director$", "directores de tecnologia", "Tecnologia">>
  >>

OWNERS == <<
    "\\bfounder(s)?\\b", "\\bco[- ]?founder(s)?\\b", "\\bfundador(a)?s?\\b",
    "\\bco[- ]?fundador(a)?s?\\b", "\\bowner(s)?\\b", "\\bpropietari[oa]s?\\b",
    "\\bdue[n7][oa]s?\\b", "\\bsoci[oa]s?\\b", "\\bpartner(s)?\\b", "\\bchair(man|woman)?\\b"
  >>

GENERAL_MANAGEMENT == <<
    "\\bdirector\\s+general\\b", "\\bgeneral\\s+manager\\b", "\\bgerente\\s+general\\b",
    "\\bmanaging\\s+director\\b"
  >>

HIERARCHY_LEVELS == <<
    <<"C-Suite", <<"\\bceo\\b", "\\bcfo\\b", "\\bcto\\b", "\\bcmo\\b", "\\bcio\\b", "\\bcoo\\b", "\\bchro\\b", "\\bcdo\\b", "\\bciso\\b", "\\bcco\\b", "\\bcso\\b", "\\bcro\\b", "\\bcao\\b", "\\bcqa\\b", "\\bchief\\b">>>>,
    <<"VP/Director", <<"\\bvp\\b", "\\bvice\\s*president\\b", "\\bdirect(or|ora)\\b", "\\bhead\\s+of\\b", "\\bdeputy\\b", "\\bsubdirect(or|ora)\\b">>>>,
    <<"Manager", <<"\\bmanager\\b", "\\bgerente\\b">>>>,
    <<"Lead", <<"\\bjef[ea]\\b", "\\blead\\b", "\\bleader\\b", "\\bprincipal\\b", "\\bcoordinador(a)?\\b", "\\bcoordinator\\b", "\\bresponsable\\b">>>>,
    <<"Specialist", <<"\\bspecialist\\b", "\\bespecialista\\b", "\\bengineer\\b", "\\bingeniero\\b", "\\banalyst\\b", "\\banalista\\b", "\\bexecutive\\b", "\\bejecutiv[oa]\\b">>>>
  >>

TECH_SUBDIVISIONS == <<
    <<"Datos", <<"\\bdata\\b", "\\banalytics\\b", "\\bbi\\b", "\\bbusiness intelligence\\b">>>>,
    <<"Ingenier1a", <<"\\bengineer\\b", "\\bingenier1a\\b", "\\bdevelop\\b", "\\bsoftware\\b">>>>,
    <<"T3cnico", <<"\\btechnical\\b", "\\bt3cnico\\b", "\\btech\\b">>>>,
    <<"Producto", <<"\\bproduct\\b", "\\bproducto\\b", "\\bpm\\b">>>>,
    <<"Infraestructura", <<"\\binfrastructure\\b", "\\bcloud\\b", "\\bdevops\\b", "\\bsystem\\b">>>>,
    <<"General", <<>>>>
  >>

MARKETING_SUBDIVISIONS == <<
    <<"Digital", <<"\\bdigital\\b", "\\bonline\\b", "\\bppc\\b", "\\bsem\\b", "\\bseo\\b">>>>,
    <<"Tradicional", <<"\\btraditional\\b", "\\bprint\\b", "\\btv\\b", "\\bradio\\b">>>>,
    <<"Contenido", <<"\\bcontent\\b", "\\bcontenido\\b", "\\bbrand\\b", "\\bcopy\\b">>>>,
    <<"Crecimiento", <<"\\bgrowth\\b", "\\bcrecimiento\\b", "\\bacquisition\\b">>>>,
    <<"Rendimiento", <<"\\bperformance\\b", "\\bmetrics\\b", "\\banalytics\\b">>>>,
    <<"Social", <<"\\bsocial\\b", "\\bcommunity\\b", "\\binfluencer\\b">>>>,
    <<"General", <<>>>>
  >>

SALES_SUBDIVISIONS == <<
    <<"Ventas Internas", <<"\\binside\\b", "\\binbound\\b", "\\binternal\\b">>>>,
    <<"Ventas de Campo", <<"\\bfield\\b", "\\boutside\\b", "\\bexternal\\b">>>>,
    <<"Canal", <<"\\bchannel\\b", "\\bpartner\\b", "\\bindirect\\b">>>>,
    <<"Cuentas Clave", <<"\\bkey account\\b", "\\benterprise\\b", "\\bstrategic\\b">>>>,
    <<"General", <<>>>>
  >>

FINANCE_SUBDIVISIONS == <<
    <<"Contabilidad", <<"\\baccounting\\b", "\\bcontabilidad\\b", "\\baccountant\\b">>>>,
    <<"Tesorer1a", <<"\\btreasury\\b", "\\btesorer1a\\b", "\\bcash\\b">>>>,
    <<"Control", <<"\\bcontrol\\b", "\\bcontroller\\b", "\\baudit\\b">>>>,
    <<"FP&A", <<"\\bfp&a\\b", "\\bplanning\\b", "\\banalysis\\b", "\\bbudget\\b">>>>,
    <<"Cr3dito", <<"\\bcredit\\b", "\\brisk\\b", "\\bcollections\\b">>>>,
    <<"General", <<>>>>
  >>

OPERATIONS_SUBDIVISIONS == <<
    <<"Log1stica", <<"\\blogistics\\b", "\\bwarehouse\\b", "\\bshipping\\b">>>>,
    <<"Cadena de Suministro", <<"\\bsupply chain\\b", "\\bprocurement\\b", "\\bsourcing\\b">>>>,
    <<"Calidad", <<"\\bquality\\b", "\\bqi\\b", "\\bqc\\b">>>>,
    <<"Servicio al Cliente", <<"\\bcustomer service\\b", "\\bsupport\\b", "\\bservice\\b">>>>,
    <<"General", <<>>>>
  >>

HR_SUBDIVISIONS == <<
    <<"Talento", <<"\\btalent\\b", "\\brecruit\\b", "\\bacquisition\\b">>>>,
    <<"Compensaci0n", <<"\\bcompensation\\b", "\\bbenefits\\b", "\\bpayroll\\b">>>>,
    <<"Aprendizaje", <<"\\blearning\\b", "\\btraining\\b", "\\bl&d\\b">>>>,
    <<"Business Partner", <<"\\bbusiness\\s+partner\\b", "\\bhrbp\\b">>>>,
    <<"General", <<>>>>
  >>

PRODUCT_SUBDIVISIONS == <<
    <<"Gesti0n", <<"\\bmanagement\\b", "\\bmanager\\b", "\\bowner\\b">>>>,
    <<"Dise7o", <<"\\bdesign\\b", "\\bux\\b", "\\bui\\b", "\\buser\\s+experience\\b">>>>,
    <<"Estrategia", <<"\\bstrategy\\b", "\\bstrateg\\b", "\\bportfolio\\b">>>>,
    <<"Investigaci0n", <<"\\bresearch\\b", "\\banalyst\\b", "\\binsights\\b">>>>,
    <<"General", <<>>>>
  >>

PROJECTS_SUBDIVISIONS == <<
    <<"Gesti0n", <<"\\bmanagement\\b", "\\bmanager\\b", "\\bpm\\b">>>>,
    <<"Planificaci0n", <<"\\bplanning\\b", "\\bschedule\\b", "\\bcronograma\\b">>>>,
    <<"Coordinaci0n", <<"\\bcoordination\\b", "\\bcoordinator\\b">>>>,
    <<"Implementaci0n", <<"\\bimplementation\\b", "\\bdeployment\\b", "\\bexecution\\b">>>>,
    <<"Metodolog1as", <<"\\bagile\\b", "\\bscrum\\b", "\\bwaterfall\\b", "\\bpmi\\b">>>>,
    <<"General", <<>>>>
  >>

C_SUITE_MAP == <<
    <<<<"\\bcmo\\b", "chief marketing officer", "chief marketing">>, "CMOs", "Marketing">>,
    <<<<"\\bcio\\b", "chief information officer", "chief information technology officer">>, "CIOs", "Tecnologia">>,
    <<<<"\\bcto\\b", "chief technical officer", "chief technology officer", "chief transformation & technology officer", "ctto", "chief of technology", "chief product and technology officer", "technical chief">>, "CTOs", "Tecnologia">>,
    <<<<"\\bciso\\b", "chief information security officer">>, "CISOs", "Tecnologia">>,
    <<<<"\\bcco\\b", "chief commercial officer">>, "CCOs", "Ventas">>,
    <<<<"\\bcso\\b", "chief sales officer">>, "CSOs (Sales)", "Ventas">>,
    <<<<"\\bcro\\b", "chief revenue officer">>, "CROs", "Ventas">>,
    <<<<"\\bceo\\b", "chief executive officer">>, "CEOs", "Ejecutivo">>,
    <<<<"\\bcfo\\b", "chief financial officer">>, "CFOs", "Ejecutivo">>,
    <<<<"\\bcdo\\b", "chief data officer", "chief digital officer">>, "CDOs", "Ejecutivo">>,
    <<<<"\\bchro\\b", "chief human resources officer">>, "CHROs", "RR. HH.">>,
    <<<<"\\bcoo\\b", "chief (of )?operations|chief operating( officer)?|operations officer">>, "COOs", "Ejecutivo">>,
    <<<<"\\bcao\\b", "chief administrat(ive|ion) officer">>, "CAOs", "Ejecutivo">>,
    <<<<"\\bcqa\\b", "cqa">>, "CQAs", "Tecnologia">>
  >>

SENIORITY_COMMON == <<
    "\\bvp\\b|\\bvice ?president(e)?\\b",
    "\\bhead\\b|\\bdirect(or|ora)\\b|\\bdireccion\\b|\\bdirecci[o0]n\\b",
    "\\bmanager\\b|\\bgerente\\b|\\bjef[ea]\\b|\\bresponsable\\b|\\blead\\b|\\bprincipal\\b|\\bleader\\b",
    "\\bcoordinador(a)?\\b|\\bcoordinator\\b", "\\bstrategist\\b|\\bestratega\\b",
    "\\bejecutiv[oa]s?\\b|\\bexecutive\\b", "\\bgestor(es)?\\b",
    "\\badministrador(a)?\\b|\\badministrator\\b", "\\bcontroller\\b|\\bcontrolador\\b",
    "\\baccountant\\b|\\bcontador(a)?\\b|\\bcontable(s)?\\b",
    "\\bdepartment\\b|\\bdepartamento\\b|\\bdpto\\b", "\\bteam\\b|\\bequipo\\b",
    "\\bengineer\\b|\\bingeniero\\b", "\\banalyst\\b|\\banalista\\b",
    "\\bscientist\\b|\\bcient[1i]fico\\b", "\\bspecialist\\b|\\bespecialista\\b",
    "\\brepresentative\\b|\\brepresentante\\b", "\\bconsultant\\b|\\bconsultor(a)?\\b",
    "\\bplanner\\b|\\bplanificador(a)?\\b", "\\brecruiter\\b|\\breclutador(a)?\\b"
  >>

EXCLUDE_COMMON == <<
    "\\bjunior\\b|\\bjr\\b", "\\btrainee\\b|\\bbecari[oa]\\b|\\bintern\\b",
    "\\bassistant\\b|\\basistente\\b", "\\bcommunity\\b|\\bartist\\b|\\bart\\b",
    "\\bdesign\\b|\\bdise[n7]o\\b|\\badvisor\\b", "\\bpaid\\b|\\bcustomer\\b"
  >>

PM_PATTERN ==
  "(?:\\bproject (manager|lead|director)\\b|\\bjefe de proyecto(s)?\\b|\\bgestor de proyecto(s)?\\b|\\bpm\\b|\\bdirect(or|ora) de proyecto(s)?\\b)"

SOLO_TITLES == <<
    <<"^\\s*vp\\s*$|^\\s*vice ?president(e)?\\s*$", "vicepresidentes">>,
    <<"^\\s*president(e)?\\s*$", "presidentes">>,
    <<"^\\s*director(a)?\\s*$", "directores">>,
    <<"^\\s*gerente\\s*$", "gerentes">>,
    <<"^\\s*manager\\s*$", "managers">>,
    <<"^\\s*ejecutiv[oa]s?\\s*$", "ejecutivos">>,
    <<"^\\s*administraci[0o]n\\s*$", "responsables de administraci0n">>,
    <<"^\\s*administrativ[oa]s?\\s*$", "administrativos">>,
    <<"^\\s*head of department\\s*$", "jefes de departamento">>
  >>

DEPT_STANDALONE == <<
    <<"^\\s*(marketing|mkt)\\s*$", "Marketing", "responsables de marketing">>,
    <<"^\\s*(it|ti|sistemas|tecnolog[i1]a|technology|tech)\\s*$", "Tecnologia", "responsables de tecnologia">>,
    <<"^\\s*(ventas|sales|comercial(?:es)?)\\s*$", "Ventas", "responsables de ventas">>,
    <<"^\\s*(finanzas?|finance|financial|contabilidad|accounting)\\s*$", "Finanzas", "responsables de finanzas">>,
    <<"^\\s*(rr\\.?\\s*hh\\.?|r\\.?\\s*r\\.?\\s*h\\.?\\s*h\\.?|recursos humanos|hr|human resources|people)\\s*$", "RR. HH.", "responsables de recursos humanos">>,
    <<"^\\s*(legal|jur[i1]dico|law|legal affairs)\\s*$", "Legal", "responsables de legal">>,
    <<"^\\s*(operaciones|operations|ops|log[i1]stica|logistics|supply ?chain)\\s*$", "Operaciones", "responsables de operaciones">>
  >>

TECH_HINTS == <<
    "\\b(it|ti)\\b", "\\bsistemas\\b", "\\btechnology\\b|\\btech\\b",
    "\\binformatic[ao]\\b|\\binformation\\b", "\\bsoftware\\b|\\bplatform\\b",
    "\\barquitectur[ao]?\\b|\\barchitecture\\b", "\\binfraestructura\\b|\\binfrastructure\\b",
    "\\bsecurity\\b|\\bseguridad\\b",
    "\\bcloud\\b|\\bnube\\b|aws|azure|\\bgcp\\b|\\bgoogle cloud\\b", "\\bdevops\\b",
    "\\bdata\\b|bi|analytics?"
  >>

MKT_HINTS == <<
    "\\bmarketing\\b", "\\bbrand(ing)?\\b|\\bmarca\\b", "\\bcontent\\b|\\bcontenid[oa]\\b",
    "\\bcomunicaciones?\\b|\\bcomms\\b|communications?",
    "\\bpublicidad\\b|\\badvertis(ing|ement|ements)?\\b|paid media",
    "\\bseo\\b|\\bsem\\b|\\bperformance\\b|\\bgrowth\\b|\\bautomation\\b|\\bemail\\b|social media|redes sociales"
  >>

OPS_HINTS == <<
    "\\boperaciones\\b|\\boperations\\b|\\bops\\b",
    "\\bindustrial\\b|\\bmanufactur\\b|\\bfabric\\b|\\bconstrucci[o0]n\\b|\\bconstruction\\b",
    "\\bproducci[o0]n\\b|\\bproduction\\b|\\bplanta\\b|\\bplant\\b",
    "\\bcalidad\\b|\\bquality\\b|\\bmantenimiento\\b|\\bmaintenance\\b"
  >>

GEN_SENIORITIES == <<
    <<"(?:\\bhead\\b|\\bdirect(or|ora)\\b)", "directores">>,
    <<"(?:\\bvp\\b|\\bvice ?president(e)?)", "vicepresidentes">>,
    <<"(?:\\bmanager\\b|\\bgerente\\b)", "gerentes">>,
    <<"(?:\\bjef[ea]\\b|\\bprincipal\\b|\\blead\\b|\\bleader\\b)", "jefes">>,
    <<"(?:\\bcoordinador(a)?\\b|\\bcoordinator\\b)", "coordinadores">>,
    <<"\\bresponsable\\b", "responsables">>,
    <<"(?:\\bcontroller\\b|\\bcontrolador\\b)", "responsables de control de gesti0n">>,
    <<"(?:\\baccountant\\b|\\bcontador(a)?\\b|\\bcontable(s)?\\b)", "responsables contables">>,
    <<"(?:\\bstrategist\\b|\\bestratega\\b)", "estrategas">>,
    <<"(?:\\bejecutiv[oa]s?\\b|\\bexecutive\\b)", "ejecutivos">>,
    <<"(?:\\bgestor(es)?\\b)", "gestores">>
  >>

TECH_AREAS == <<
    <<"sistemas", "(?:\\bsystem(s)?\\b|\\b(it\\s*)?systems?\\b|sistemas?)">>,
    <<"redes", "(?:\\bnetwork(s)?\\b|redes?)">>,
    <<"infraestructura", "(?:infraestructura|infrastructure)">>,
    <<"implementaciones", "(?:implementation|implementaci[o0]n|deployment|despliegue)">>,
    <<"ingenier1a", "(?:ingenier[1i]a|engineer(?:ing)?)">>,
    <<"it", "(?:\\bti\\b|\\bit\\b|informaci[o0]n|information)">>,
    <<"tecnolog1a", "(?:tecnolog[1i]a|technology|tech|technical|tecnico)">>,
    <<"devops", "(?:\\bdevops\\b)">>,
    <<"qa", "(?:\\bqa\\b|quality assurance|tester|testing|aseguramiento de calidad|control de calidad|quality control)">>,
    <<"proyectos", "(?:project|proyectos|jefe de proyecto|gestor de proyecto|\\bpm\\b)">>,
    <<"arquitectura", "(?:arquitectur[ao]|\\barchitecture\\b|architect)">>,
    <<"seguridad", "(?:security|seguridad|infosec|ciberseguridad|cyber ?security)">>,
    <<"plataforma", "(?:platform|plataforma)">>,
    <<"nube", "(?:cloud|nube|aws|azure|gcp|google cloud)">>,
    <<"datos", "(?:data|datos|bi|business intelligence|analitica)">>,
    <<"soporte", "(?:support|soporte|help ?desk|service ?desk|technical ?support)">>
  >>

MKT_AREAS == <<
    <<"marketing", "\\bmarketing\\b">>,
    <<"marca", "(?:\\bbrand(ing)?\\b|\\bmarca\\b)">>,
    <<"contenido", "(?:\\bcontenid[oa]\\b|\\bcontent\\b)">>,
    <<"comunicaciones", "(?:\\bcomunicaciones?\\b|\\bcomms\\b|communications?)">>,
    <<"publicidad", "(?:\\bpublicidad\\b|\\badvertis(ing|ement|ements)?\\b|paid media)">>,
    <<"email", "\\bemail\\b">>,
    <<"automatizaci0n", "\\bautomation\\b|\\bmarketing automation\\b|hubspot|marketo">>,
    <<"inbound", "\\binbound\\b">>,
    <<"performance", "(?:\\bperformance\\b|growth)">>,
    <<"social", "(?:social media|redes sociales|community)">>,
    <<"seo", "(?:\\bseo\\b|search engine optimization)">>,
    <<"sem", "(?:\\bsem\\b|paid search|google ads)">>
  >>

SALES_AREAS == <<
    <<"ventas", "\\bventas\\b|\\bsales\\b">>,
    <<"comercial", "\\bcomercial(es)?\\b">>,
    <<"revenue", "\\brevenue\\b">>,
    <<"gtm", "\\bgo[- ]?to[- ]?market\\b|\\bgtm\\b">>,
    <<"bd", "\\bbusiness ?development\\b|\\bbd[rm]?\\b">>,
    <<"accounts", "\\baccount (manager|executive)\\b|\\bae\\b|\\bam\\b">>,
    <<"partner", "\\bpartner(ship|s)?\\b|alianzas|partnerships?">>,
    <<"presales", "\\bpre[- ]?sales?\\b|preventas">>,
    <<"postventa", "(?:post[- ]?sales?|postventa|customer success)">>
  >>

FIN_AREAS == <<
    <<"contabilidad", "(?:\\baccounting\\b|\\bcontabilidad\\b|\\baccount\\b|\\bcontador(a)?\\b|\\bcontable(s)?\\b)">>,
    <<"control de gesti0n", "(?:\\bcontroller\\b|\\bcontrolador\\b|\\bcontrol de gesti[o0]n\\b)">>,
    <<"finanzas", "(?:\\bfinance\\b|\\bfinancial\\b|\\bfinanzas?\\b|\\bfinanciera\\b)">>,
    <<"fiscalidad", "(?:\\bfiscal\\b|tax)">>,
    <<"tesorer1a", "(?:\\btreasury\\b|\\btesorer[i1]a\\b|cash management)">>,
    <<"ar", "(?:accounts? receivable|cuentas? por cobrar|\\bar\\b)">>,
    <<"ap", "(?:accounts? payable|cuentas? por pagar|\\bap\\b)">>,
    <<"fp&a", "(?:\\bfp&a\\b|financial planning|planning & analysis)">>,
    <<"inversiones", "(?:investment|inversiones|asset management|portafolio|portfolio)">>,
    <<"auditor1a", "(?:audit(?:ing)?|auditor[i1]a|auditor)">>,
    <<"riesgo", "(?:risk|riesgo)">>
  >>

HR_AREAS == <<
    <<"rrhh", "(?:recursos humanos|human resources|\\bhr\\b|\\bpeople\\b)">>,
    <<"talento", "(?:talent|talento|people operations|people ops|people partner)">>,
    <<"reclutamiento", "(?:recruit(ing|er)?|reclutamiento|selecci[o0]n|acquisition|acquisitions?)">>,
    <<"onboarding", "(?:onboarding|inducci[o0]n)">>,
    <<"capacitacion", "(?:capacita(c|6)[i1]on|training|learning|l&d|learning and development)">>,
    <<"compensaciones", "(?:compensation|benefits|compensaciones|beneficios|c&b|total rewards)">>,
    <<"nomina", "(?:payroll|n[o0]mina)">>,
    <<"relaciones laborales", "(?:labor relations|relaciones laborales)">>,
    <<"desempeno", "(?:performance management|desempe[7n]o|evaluaci[o0]n de desempe7o)">>,
    <<"cultura", "(?:culture|cultura|engagement|clima)">>
  >>

LEGAL_AREAS == <<
    <<"legal", "(?:legal|jur[i1]dico|law|legal affairs|asuntos legales)">>,
    <<"contratos", "(?:contracts?|contratos?)">>,
    <<"compliance", "(?:compliance|cumplimiento|regulatorio|regulatory|gobernanza|governance)">>,
    <<"asesoria", "(?:counsel|abogad[oa]s?|asesor(?:a)? legal|legal counsel|general counsel|gc\\b)">>,
    <<"propiedad intelectual", "(?:ip|propiedad intelectual|patentes|marcas|copyright)">>,
    <<"corporativo", "(?:corporate|societario|corporativo|m&a|fusiones|adquisiciones)">>,
    <<"litigios", "(?:litigation|litigios|disputes|arbitraje|arbitration)">>,
    <<"privacidad", "(?:privacy|privacidad|datos personales|gdpr|ccpa|data protection)">>
  >>

OPS_AREAS == <<
    <<"operaciones", "(?:operaciones|operations|ops\\b)">>,
    <<"logistica", "(?:log[1i]stica|logistics|last mile|almac[e3]n|warehouse)">>,
    <<"supply chain", "(?:supply ?chain|cadena de suministro|planning|s&op|procurement|compras)">>,
    <<"fulfillment", "(?:fulfillment|operaci[o0]n de pedidos|preparaci[o0]n de pedidos)">>,
    <<"servicio", "(?:servicio al cliente|customer service|soporte|support)">>,
    <<"calidad", "(?:quality|calidad|qa operaciones)">>,
    <<"h&s", "(?:seguridad e higiene|hse|ehs|health & safety|seguridad industrial)">>
  >>

PRODUCT_AREAS == <<
    <<"gesti0n de producto", "(?:product management|gesti0n de producto|product owner|po\\b)">>,
    <<"desarrollo", "(?:product development|desarrollo de producto)">>,
    <<"estrategia", "(?:product strategy|estrategia de producto)">>,
    <<"portfolio", "(?:portfolio|portafolio)">>,
    <<"design", "(?:product design|dise7o de producto|ux|ui|user experience|user interface)">>,
    <<"research", "(?:user research|investigaci0n|market research)">>
  >>

PROJECTS_AREAS == <<
    <<"gesti0n", "(?:project management|gesti0n de proyectos|project manager|pm\\b)">>,
    <<"planificaci0n", "(?:planning|planificaci0n|schedule|cronograma)">>,
    <<"coordinaci0n", "(?:coordination|coordinaci0n|coordinator)">>,
    <<"seguimiento", "(?:tracking|seguimiento|monitoring|control)">>,
    <<"implementaci0n", "(?:implementation|implementaci0n|deployment|despliegue)">>,
    <<"metodolog1as", "(?:agile|scrum|waterfall|metodolog1as|pmi|prince2)">>
  >>

SPECIAL_TECH == <<
    <<"(?:\\b(it\\s*)?systems?\\s*admin(?:istrator)?\\b|\\bsys\\s*admin\\b|\\bsysadmin\\b)", "administradores de sistemas">>,
    <<"(?:\\bnetwork\\s*admin(?:istrator)?\\b|\\bredes?\\s*admin(?:istrador|istradora)?\\b)", "administradores de redes">>,
    <<"systems?\\s*and\\s*network\\s*admin(?:istrator)?", "administradores de sistemas">>,
    <<"(?:\\bqa\\b|quality assurance|tester|testing|aseguramiento de calidad|control de calidad|quality control)", "l1deres de qa">>,
    <<"(?:project|proyectos|jefe de proyecto|gestor de proyecto|\\bpm\\b)", "project managers">>,
    <<"\\bdevops\\b", "devops">>,
    <<"(?:technical\\s+(?:support|service|manager)|tech\\s+(?:support|service|manager))", "gerentes t3cnicos">>,
    <<"(?:technical\\s+director|tech\\s+director)", "directores t3cnicos">>,
    <<"(?:technical\\s+lead|tech\\s+lead)", "l1deres t3cnicos">>,
    <<"(?:technical\\s+analyst|tech\\s+analyst)", "analistas t3cnicos">>,
    <<"(?:support\\s+manager)", "gerentes de soporte">>,
    <<"(?:customer\\s+support|help\\s+desk)", "responsables de soporte al cliente">>
  >>

SPECIAL_MKT == <<
    <<"\\bbrand(ing)?\\b.*\\bmanager\\b|\\bbrand manager\\b", "gerentes de marca">>,
    <<"\\bcontent\\b.*\\bmanager\\b|\\bcontent manager\\b", "gerentes de contenido">>,
    <<"\\bmarketing team\\b", "equipos de marketing">>
  >>

SPECIAL_SALES == <<
    <<"\\baccount manager\\b", "account managers">>,
    <<"\\baccount executive\\b", "account executives">>
  >>

SPECIAL_FIN == <<
    <<"(?:director\\s+financiero|financial\\s+director)", "directores financieros">>,
    <<"(?:\\bcontroller\\b|\\bcontrolador\\b|\\bcontrol de gesti[o0]n\\b)", "responsables de control de gesti0n">>,
    <<"(?:\\baccountant\\b|\\bcontador(a)?\\b|\\bcontable(s)?\\b)", "responsables contables">>,
    <<"(?:\\btreasury\\b|\\btesorer[i1]a\\b|cash management)", "responsables de tesorer1a">>,
    <<"(?:\\bfiscal\\b|tax)", "responsables fiscales">>,
    <<"(?:accounts? receivable|cuentas? por cobrar|\\bar\\b)", "responsables de cuentas por cobrar">>,
    <<"(?:accounts? payable|cuentas? por pagar|\\bap\\b)", "responsables de cuentas por pagar">>,
    <<"(?:\\bfp&a\\b|financial planning|planning & analysis)", "responsables de FP&A">>
  >>

SPECIAL_HR == <<
    <<"(?:director\\s+de\\s+rr\\.?\\s*hh\\.?|director\\s+de\\s+recursos\\s+humanos)", "directores de rrhh">>,
    <<"(?:recruit(ing|er)?|selecci[o0]n|acquisition|acquisitions?)", "reclutadores">>,
    <<"(?:hrbp|people partner|business partner)", "business partners de rr. hh.">>,
    <<"(?:payroll|n[o0]mina)", "responsables de n0mina">>,
    <<"(?:compensation|benefits|total rewards|compensaciones|beneficios)", "responsables de compensaciones y beneficios">>,
    <<"(?:training|learning|l&d|learning and development|capacitaci[o0]n)", "responsables de capacitaci0n">>
  >>

SPECIAL_LEGAL == <<
    <<"(?:general counsel|gc\\b)", "general counsels">>,
    <<"(?:counsel|abogad[oa]s?|asesor(?:a)? legal)", "asesores legales">>,
    <<"(?:contracts?|contratos?)", "responsables de contratos">>,
    <<"(?:compliance|cumplimiento|regulatorio|regulatory|governance|gobernanza)", "responsables de compliance">>,
    <<"(?:privacy|privacidad|gdpr|ccpa|data protection)", "responsables de privacidad">>
  >>

SPECIAL_OPS == <<
    <<"(?:log[1i]stica|logistics|warehouse|almac[e3]n|last mile)", "responsables de log1stica">>,
    <<"(?:supply ?chain|cadena de suministro|procurement|compras|planning|s&op)", "responsables de supply chain">>,
    <<"(?:fulfillment|operaci[o0]n de pedidos|preparaci[o0]n de pedidos)", "responsables de fulfillment">>,
    <<"(?:customer service|servicio al cliente|soporte|support)", "responsables de servicio al cliente">>,
    <<"(?:health & safety|seguridad e higiene|hse|ehs|seguridad industrial)", "responsables de seguridad e higiene">>,
    <<"(?:director\\s+industrial|industrial\\s+director)", "directores industriales">>
  >>

SPECIAL_PRODUCT == <<
    <<"(?:product manager|pm\\b|gestor de producto)", "product managers">>,
    <<"(?:product owner|po\\b|propietario de producto)", "product owners">>,
    <<"(?:product director|director de producto)", "directores de producto">>,
    <<"(?:ux|ui|user experience|user interface|dise7o de producto)", "responsables de dise7o de producto">>,
    <<"(?:user research|investigaci0n de usuario)", "investigadores de usuario">>
  >>

SPECIAL_PROJECTS == <<
    <<"(?:project manager|pm\\b|gestor de proyectos|jefe de proyecto)", "project managers">>,
    <<"(?:project director|director de proyectos)", "directores de proyectos">>,
    <<"(?:pmo\\s+director|director\\s+pmo|director de pmo)", "directores de PMO">>,
    <<"(?:project coordinator|coordinador de proyectos)", "coordinadores de proyectos">>,
    <<"(?:project lead|l1der de proyecto)", "l1deres de proyectos">>,
    <<"(?:pmo|project management office|oficina de proyectos)", "responsables de PMO">>,
    <<"(?:scrum master|agile coach)", "scrum masters">>,
    <<"(?:pmo\\s+senior|senior\\s+pmo)", "seniors de PMO">>
  >>

DEPARTMENTS == <<
    [name |-> "Marketing",
     must |-> <<
       "\\bmarketing\\b", "\\bbrand\\b", "\\bmarket\\b", "\\bcontent\\b|\\bcontenido\\b",
       "\\bgrowth\\b|\\bcrecimiento\\b", "\\bcampaign\\b|\\bcampa7a\\b",
       "\\bsocial\\b|\\bmedia\\b"
     >>,
     seniority |-> SENIORITY_COMMON,
     exclude |-> EXCLUDE_COMMON \o <<"\\btrade\\b", "\\bperformance\\b", "\\bproduct\\b", "\\bads\\b", "\\barea\\b", "\\baccount\\b">>,
     areas |-> MKT_AREAS, specials |-> SPECIAL_MKT],
    [name |-> "Tecnologia",
     must |-> <<
       "\\b(it|ti)\\b", "\\bsistemas\\b", "\\btechnology\\b|\\btech\\b",
       "\\binformatic[ao]\\b|\\binformation\\b", "\\bsoftware\\b|\\bplatform\\b",
       "\\barquitectur[ao]?\\b|\\barchitecture\\b", "\\binfraestructura\\b|\\binfrastructure\\b",
       "\\bsecurity\\b|\\bseguridad\\b", "\\btechnical\\b|\\btecnico\\b",
       "\\bengineering\\b|\\bingenier[1i]a\\b|\\bengineer\\b", "\\bproject\\b|\\bproyecto\\b",
       "\\bqa\\b|\\bquality\\b", "\\bde tecnolog[1i]a\\b", "\\borganizaci[o0]n\\b",
       "\\bde la informaci[o0]n\\b", "\\bde proyectos\\b",
       "\\bdata\\b|\\banalytics\\b|\\bscience\\b", "\\bdatabase\\b|\\bdb\\b",
       "\\bsystem\\b|\\bnetwork\\b", "\\bsupport\\b|\\bsoporte\\b",
       "\\bhelp ?desk\\b|\\bservice ?desk\\b"
     >>,
     seniority |-> SENIORITY_COMMON,
     exclude |-> EXCLUDE_COMMON \o <<"\\bdesarrollo ?de ?negocio\\b|\\bbusiness ?development\\b">>,
     areas |-> TECH_AREAS, specials |-> SPECIAL_TECH],
    [name |-> "Ventas",
     must |-> <<
       "\\bcomercial(es)?\\b", "\\bventas\\b", "\\bsales\\b", "\\brevenue\\b",
       "\\bgo[- ]?to[- ]?market\\b|\\bgtm\\b", "\\bbusiness ?development\\b|\\bbd[rm]?\\b",
       "\\baccount (manager|executive)\\b|\\bae\\b|\\bam\\b", "\\bpartner(ship|s)?\\b"
     >>,
     seniority |-> SENIORITY_COMMON,
     exclude |-> EXCLUDE_COMMON \o <<"\\bmarketing\\b">>,
     areas |-> SALES_AREAS, specials |-> SPECIAL_SALES],
    [name |-> "Finanzas",
     must |-> <<
       "\\bfinance\\b|\\bfinancial\\b|\\bfinanzas?\\b|\\bfinanciera\\b|\\bfinanciero\\b",
       "\\baccounting\\b|\\bcontabilidad\\b|\\baccount\\b",
       "\\bcontador(a)?\\b|\\bcontable(s)?\\b|\\binvestment\\b", "\\baccountant\\b",
       "\\bcontroller\\b|\\bcontrolador\\b", "\\bplanner\\b|\\bplanning\\b",
       "\\btreasury\\b|\\btesorer1a\\b", "\\bcredit\\b|\\bcr3dito\\b"
     >>,
     seniority |-> SENIORITY_COMMON \o <<"\\bfiscal\\b", "\\bcontroller\\b|\\bcontrolador\\b", "\\badministraci[o0]n\\b|\\badministrador(a)?\\b|\\badministrativ[oa]s?\\b">>,
     exclude |-> EXCLUDE_COMMON \o <<"\\bkey\\b">>,
     areas |-> FIN_AREAS, specials |-> SPECIAL_FIN],
    [name |-> "RR. HH.",
     must |-> <<
       "(?:recursos humanos|human resources|\\bhr\\b|\\bpeople\\b|talent|\\brrhh\\b|\\brr\\.?\\s*hh\\.?)",
       "\\brecruit(er|ing)?\\b|\\breclutamiento\\b", "\\bcompensation\\b|\\bcompensaciones\\b",
       "\\btraining\\b|\\bcapacitaci[o0]n\\b", "\\bpayroll\\b|\\bn[o0]mina\\b"
     >>,
     seniority |-> SENIORITY_COMMON,
     exclude |-> EXCLUDE_COMMON,
     areas |-> HR_AREAS, specials |-> SPECIAL_HR],
    [name |-> "Legal",
     must |-> <<
       "(?:legal|jur[i1]dico|law|legal affairs|asuntos legales|compliance|contracts?)"
     >>,
     seniority |-> SENIORITY_COMMON,
     exclude |-> EXCLUDE_COMMON,
     areas |-> LEGAL_AREAS, specials |-> SPECIAL_LEGAL],
    [name |-> "Operaciones",
     must |-> <<
       "(?:operaciones|operations|ops|log[1i]stica|logistics|supply ?chain|fulfillment|warehouse|almac[e3]n|industrial)"
     >>,
     seniority |-> SENIORITY_COMMON,
     exclude |-> EXCLUDE_COMMON,
     areas |-> OPS_AREAS, specials |-> SPECIAL_OPS],
    [name |-> "Producto",
     must |-> <<
       "(?:product|producto|product management|gesti0n de producto)"
     >>,
     seniority |-> SENIORITY_COMMON,
     exclude |-> EXCLUDE_COMMON,
     areas |-> PRODUCT_AREAS, specials |-> SPECIAL_PRODUCT],
    [name |-> "Proyectos",
     must |-> <<
       "(?:project|proyecto|project management|gesti0n de proyectos|pm\\b|pmo|scrum|agile)"
     >>,
     seniority |-> SENIORITY_COMMON,
     exclude |-> EXCLUDE_COMMON,
     areas |-> PROJECTS_AREAS, specials |-> SPECIAL_PROJECTS]
  >>

COMMON_ROLES == <<
    "CEO", "CTO", "CFO", "CMO", "COO", "CIO", "CHRO", "CSO", "CRO", "Marketing Manager",
    "Sales Manager", "Technical Support Manager", "HR Manager", "IT Manager",
    "Operations Manager", "Financial Manager", "Product Manager", "Project Manager",
    "Account Manager", "Brand Manager", "Marketing Director", "Sales Director",
    "Technology Director", "HR Director", "VP Marketing", "VP Sales", "VP Technology",
    "VP Operations", "Software Engineer", "Data Scientist", "System Administrator",
    "Engineer", "Chief Marketing", "Marketing Team", "Director of Marketing", "Head of Sales",
    "Engineering Manager", "Business Analyst", "Content Manager"
  >>

(***************************************************************************)
(* Label post-processing and the result record.                            *)
(***************************************************************************)
\* Optional values: None, or a one-element tuple holding the value.  Where
\* the source only tests an optional string for truth, "" stands for None.
None == <<>>

\* dict.get(key): None when the key is absent.
dict_get(pairs, key) ==
  LET hits == {i \in DOMAIN pairs : pairs[i][1] = key}
  IN IF hits = {} THEN None ELSE <<pairs[CHOOSE i \in hits : TRUE][2]>>

singularize_word(word, keep_us) ==
  IF endswith(word, "es") /\ Len(word) > 3 THEN SubSeq(word, 1, Len(word) - 2)
  ELSE IF endswith(word, "s") /\ Len(word) > 2 /\ ~(keep_us /\ endswith(word, "us"))
       THEN SubSeq(word, 1, Len(word) - 1)
  ELSE word

\* Lines 214-241, for a role that singular_map does or does not know.
singularize_with(role_generic, known) ==
  IF role_generic = "" THEN ""
  ELSE IF known # None THEN known[1]
  ELSE IF contains(role_generic, " de ")
       THEN LET at == find(role_generic, " de ")
                first_part == SubSeq(role_generic, 1, at - 1)
                second_part == SubSeq(role_generic, at + 4, Len(role_generic))
            IN singularize_word(first_part, FALSE) \o " de " \o second_part
  ELSE singularize_word(role_generic, TRUE)

singularize_role(role_generic) ==
  singularize_with(role_generic, dict_get(singular_map, role_generic))

create_result(original, is_icp, department, subdivision, hierarchy_level, role_generic, why) ==
  [input |-> original,
   is_icp |-> is_icp,
   department |-> department,
   subdivision |-> subdivision,
   hierarchy_level |-> hierarchy_level,
   role_generic |-> role_generic,
   role_generic_singular |-> IF role_generic # "" THEN singularize_role(role_generic) ELSE "",
   why |-> why]

(***************************************************************************)
(* Detectors.                                                              *)
(***************************************************************************)
fast_classify(text) ==
  LET text_lower == lower(text)
      i == first_match(text_lower, Column(FAST_PATTERNS, 1))
  IN IF i = 0 THEN None ELSE <<FAST_PATTERNS[i][2], FAST_PATTERNS[i][3]>>

seniority_label(text) ==
  LET i == first_match(text, Column(GEN_SENIORITIES, 1))
  IN IF i = 0 THEN "" ELSE GEN_SENIORITIES[i][2]

detect_first(text, pairs) ==
  LET i == first_match(text, Column(pairs, 1))
  IN IF i = 0 THEN "" ELSE pairs[i][2]

detect_area(text, areas) ==
  LET i == first_match(text, Column(areas, 2))
  IN IF i = 0 THEN "" ELSE areas[i][1]

\* The level of the last tier that matches, not the first.
detect_hierarchy_level_last(text, nc) ==
  LET text_norm == norm(text, nc).ret
      hits == {i \in DOMAIN HIERARCHY_LEVELS : any_match(text_norm, HIERARCHY_LEVELS[i][2])}
  IN IF hits = {} THEN "Specialist" ELSE HIERARCHY_LEVELS[Max(hits)][1]

detect_hierarchy_level(text, nc) ==
  LET text_norm == norm(text, nc).ret
      i == first_any(text_norm, Column(HIERARCHY_LEVELS, 2))
  IN IF i = 0 THEN "Specialist" ELSE HIERARCHY_LEVELS[i][1]

subdivision_map == <<
    <<"Tecnologia", TECH_SUBDIVISIONS>>, <<"Marketing", MARKETING_SUBDIVISIONS>>,
    <<"Ventas", SALES_SUBDIVISIONS>>, <<"Finanzas", FINANCE_SUBDIVISIONS>>,
    <<"Operaciones", OPERATIONS_SUBDIVISIONS>>, <<"RR. HH.", HR_SUBDIVISIONS>>,
    <<"Producto", PRODUCT_SUBDIVISIONS>>, <<"Proyectos", PROJECTS_SUBDIVISIONS>>
  >>

\* The loop returning the last subdivision that matches, not the first.
subdivision_loop_last(text_norm, found) ==
  IF found = None THEN "General"
  ELSE LET subdivisions == found[1]
           hits == {k \in DOMAIN subdivisions :
                      /\ subdivisions[k][1] # "General"
                      /\ any_match(text_norm, subdivisions[k][2])}
       IN IF hits = {} THEN "General" ELSE subdivisions[Max(hits)][1]

\* The loop of lines 829-835 over the subdivisions of one department.
subdivision_loop(text_norm, found) ==
  IF found = None THEN "General"
  ELSE LET subdivisions == found[1]
           i == first_any(text_norm,
                          [k \in DOMAIN subdivisions |->
                             IF subdivisions[k][1] = "General" THEN <<>> ELSE subdivisions[k][2]])
       IN IF i = 0 THEN "General" ELSE subdivisions[i][1]

detect_subdivision(text, department, nc) ==
  subdivision_loop(norm(text, nc).ret, dict_get(subdivision_map, department))

\* The label with the generic template tried before the special labels.
label_generic_first(dep, text, areas, specials) ==
  LET sp == detect_first(text, specials)
      sen == seniority_label(text)
      area == detect_area(text, areas)
  IN IF sen # "" THEN sen \o " de " \o lower(IF area # "" THEN area ELSE dep)
     ELSE sp

label_by_area_and_seniority(dep, text, areas, specials) ==
  LET sp == detect_first(text, specials)
      sen == seniority_label(text)
      area == detect_area(text, areas)
  IN IF sp # "" THEN sp
     ELSE IF sen = "" THEN ""
     ELSE sen \o " de " \o lower(IF area # "" THEN area ELSE dep)

dynamic_role_label(dep, text) ==
  LET sen == seniority_label(text)
  IN IF sen # "" THEN sen \o " de " \o lower(dep) ELSE "encargados de " \o lower(dep)

(***************************************************************************)
(* The stages of _classify_one_internal, in the order of the code.  Each   *)
(* stage is a condition on the title and the record it returns; original   *)
(* is the title as given, t its normalized text, nc the normalizer cache   *)
(* after t was computed.                                                   *)
(***************************************************************************)
\* hierarchy_level, subdivision and create_result, as every positive stage
\* calls them.
icp_result(original, department, role_generic, why, nc) ==
  create_result(original, TRUE, department,
                detect_subdivision(original, department, nc),
                detect_hierarchy_level(original, nc), role_generic, why)

\* The fast path as it would be without the test of line 1019.
fast_path_before_excludes(job_title, external_excludes) ==
  fast_classify(job_title) # None

fast_path_hit(job_title, external_excludes) ==
  external_excludes = <<>> /\ fast_classify(job_title) # None

fast_path_result(original, nc) ==
  LET fast_result == fast_classify(original)
  IN icp_result(original, fast_result[2], fast_result[1], [matched |-> "fast_path"], nc)

external_excludes_hit(t, external_excludes) == any_match_hit(t, external_excludes)

\* Line 1028 raises: an exclude that does not compile is reached before one
\* that matches.  Nothing catches the exception; it is what the call gives.
re_error == [raised |-> "re.error"]

external_excludes_raises(t, external_excludes) == any_match_raises(t, external_excludes)

external_excludes_result(original) ==
  create_result(original, FALSE, "", "", "", "", [excluded_by |-> "external_excludes"])

owners_hit(t) == any_match(t, OWNERS)

c_suite_index(t) == first_any(t, Column(C_SUITE_MAP, 1))

owners_result(original, t, nc) ==
  LET i == c_suite_index(t)
  IN IF i # 0
     THEN icp_result(original, C_SUITE_MAP[i][3], C_SUITE_MAP[i][2],
                     [matched |-> C_SUITE_MAP[i][2] \o "_over_owner"], nc)
     ELSE icp_result(original, "Ejecutivo", "propietarios", [matched |-> "owners"], nc)

general_management_hit(t) == any_match(t, GENERAL_MANAGEMENT)

general_management_result(original, nc) ==
  icp_result(original, "Ejecutivo", "directores", [matched |-> "general_management"], nc)

c_suite_hit(t) == c_suite_index(t) # 0

c_suite_result(original, t, nc) ==
  LET i == c_suite_index(t)
  IN icp_result(original, C_SUITE_MAP[i][3], C_SUITE_MAP[i][2],
                [matched |-> C_SUITE_MAP[i][2]], nc)

area_roles_pattern == "\\barea\\s+(director|manager|gerente)\\b"

area_roles_hit(t) == re_search(area_roles_pattern, t)

area_roles_result(original, t, nc) ==
  LET role_label == IF contains(lower(t), "director") THEN "directores" ELSE "gerentes"
  IN icp_result(original, "Ejecutivo", role_label, [matched |-> "area_roles"], nc)

ejecutivo_patterns == <<
    <<"\\bassociate\\s+director\\b", "directores asociados">>,
    <<"\\bdirector\\s+of\\s+administration\\b", "directores de administraci0n">>,
    <<"\\bdirector\\s+regional\\b", "directores regionales">>,
    <<"\\bregional\\s+director\\b", "directores regionales">>
  >>

ejecutivo_hit(t) == first_match(t, Column(ejecutivo_patterns, 1)) # 0

ejecutivo_result(original, t, nc) ==
  LET i == first_match(t, Column(ejecutivo_patterns, 1))
  IN icp_result(original, "Ejecutivo", ejecutivo_patterns[i][2],
                [matched |-> "nuevos_ejecutivo_roles"], nc)

solo_title_hit(t) == first_match(t, Column(SOLO_TITLES, 1)) # 0

\* (The label of the first entry, whichever entry matched.)
solo_title_first_label(original, t, nc) ==
  icp_result(original, "Ejecutivo", SOLO_TITLES[1][2], [matched |-> "solo_title"], nc)

solo_title_result(original, t, nc) ==
  LET i == first_match(t, Column(SOLO_TITLES, 1))
  IN icp_result(original, "Ejecutivo", SOLO_TITLES[i][2], [matched |-> "solo_title"], nc)

standalone_hit(t) == first_match(t, Column(DEPT_STANDALONE, 1)) # 0

standalone_result(original, t, nc) ==
  LET i == first_match(t, Column(DEPT_STANDALONE, 1))
  IN icp_result(original, DEPT_STANDALONE[i][2], DEPT_STANDALONE[i][3],
                [matched |-> "standalone_department"], nc)

pm_router_hit(t) == re_search(PM_PATTERN, t)

\* The hints read in the order marketing, operations, technology.
pm_router_department_marketing_first(t) ==
  IF any_match(t, MKT_HINTS) THEN "Marketing"
  ELSE IF any_match(t, OPS_HINTS) THEN "Operaciones"
  ELSE "Tecnologia"

pm_router_department(t) ==
  IF any_match(t, TECH_HINTS) THEN "Tecnologia"
  ELSE IF any_match(t, MKT_HINTS) THEN "Marketing"
  ELSE IF any_match(t, OPS_HINTS) THEN "Operaciones"
  ELSE "Tecnologia"

pm_router_result(original, t, nc) ==
  LET dep == pm_router_department(t)
      sen == IF seniority_label(t) # "" THEN seniority_label(t) ELSE "responsables"
  IN icp_result(original, dep, sen \o " de proyectos",
                [matched |-> "pm_router", department_routed |-> dep], nc)

marketing_signal(t) == re_search("\\bmarketing\\b", t)

\* The turn of the loop with the tie-break resolved the other way: Ventas
\* is taken, not skipped, when marketing is in the text.
department_gate_sales_wins(t, cfg, external_excludes) ==
  LET must_ok == any_match(t, cfg.must)
      senior_ok == any_match(t, cfg.seniority)
      excl_hit == any_match(t, cfg.exclude) \/ any_match(t, external_excludes)
  IN IF cfg.name = "Ventas" /\ must_ok /\ marketing_signal(t) THEN TRUE
     ELSE must_ok /\ senior_ok /\ ~excl_hit

\* The turn of the loop with the exclude test the wrong way round.
department_gate_exclude_required(t, cfg, external_excludes) ==
  LET must_ok == any_match(t, cfg.must)
      senior_ok == any_match(t, cfg.seniority)
      excl_hit == any_match(t, cfg.exclude) \/ any_match(t, external_excludes)
  IN IF cfg.name = "Ventas" /\ must_ok /\ marketing_signal(t) THEN FALSE
     ELSE must_ok /\ senior_ok /\ excl_hit

\* The turn of the loop without the department's own excludes.
department_gate_own_excludes_ignored(t, cfg, external_excludes) ==
  LET must_ok == any_match(t, cfg.must)
      senior_ok == any_match(t, cfg.seniority)
      excl_hit == any_match(t, external_excludes)
  IN IF cfg.name = "Ventas" /\ must_ok /\ marketing_signal(t) THEN FALSE
     ELSE must_ok /\ senior_ok /\ ~excl_hit

\* One turn of the department loop: TRUE when the loop returns at cfg.
department_gate(t, cfg, external_excludes) ==
  LET must_ok == any_match(t, cfg.must)
      senior_ok == any_match(t, cfg.seniority)
      excl_hit == any_match(t, cfg.exclude) \/ any_match(t, external_excludes)
  IN IF cfg.name = "Ventas" /\ must_ok /\ marketing_signal(t) THEN FALSE
     ELSE must_ok /\ senior_ok /\ ~excl_hit

\* The loop returning at the last department that qualifies, not the first.
department_index_last(t, external_excludes) ==
  LET hits == {k \in DOMAIN DEPARTMENTS : department_gate(t, DEPARTMENTS[k], external_excludes)}
  IN IF hits = {} THEN 0 ELSE Max(hits)

department_index(t, external_excludes) ==
  LET hits == {k \in DOMAIN DEPARTMENTS : department_gate(t, DEPARTMENTS[k], external_excludes)}
  IN IF hits = {} THEN 0 ELSE Min(hits)

departments_hit(t, external_excludes) == department_index(t, external_excludes) # 0

\* Lines 1124-1131: the return of the loop at the department cfg.
department_return(original, t, cfg, nc) ==
  LET dep == cfg.name
      label == label_by_area_and_seniority(dep, t, cfg.areas, cfg.specials)
  IN IF label # ""
     THEN icp_result(original, dep, label,
                     [must |-> TRUE, seniority |-> TRUE, exclude |-> FALSE,
                      matched |-> "area+seniority/special"], nc)
     ELSE icp_result(original, dep, dynamic_role_label(dep, t),
                     [must |-> TRUE, seniority |-> TRUE, exclude |-> FALSE,
                      matched |-> "fallback"], nc)

departments_result(original, t, external_excludes, nc) ==
  department_return(original, t, DEPARTMENTS[department_index(t, external_excludes)], nc)

\* A negative record that keeps the levels a positive record has.
no_match_with_levels(original) ==
  create_result(original, FALSE, "", "General", "Specialist", "", [no_match |-> TRUE])

no_match_result(original) ==
  create_result(original, FALSE, "", "", "", "", [no_match |-> TRUE])

\* The pipeline with the C-suite map looked at before the owners.
pipeline_c_suite_first(original, t, external_excludes, nc) ==
  IF external_excludes_hit(t, external_excludes) THEN external_excludes_result(original)
  ELSE IF external_excludes_raises(t, external_excludes) THEN re_error
  ELSE IF c_suite_hit(t) THEN c_suite_result(original, t, nc)
  ELSE IF owners_hit(t) THEN owners_result(original, t, nc)
  ELSE IF general_management_hit(t) THEN general_management_result(original, nc)
  ELSE IF area_roles_hit(t) THEN area_roles_result(original, t, nc)
  ELSE IF ejecutivo_hit(t) THEN ejecutivo_result(original, t, nc)
  ELSE IF solo_title_hit(t) THEN solo_title_result(original, t, nc)
  ELSE IF standalone_hit(t) THEN standalone_result(original, t, nc)
  ELSE IF pm_router_hit(t) THEN pm_router_result(original, t, nc)
  ELSE IF departments_hit(t, external_excludes)
       THEN departments_result(original, t, external_excludes, nc)
  ELSE no_match_result(original)

\* The pipeline after the fast path: lines 1027-1134.
full_pipeline(original, t, external_excludes, nc) ==
  IF external_excludes_hit(t, external_excludes) THEN external_excludes_result(original)
  ELSE IF external_excludes_raises(t, external_excludes) THEN re_error
  ELSE IF owners_hit(t) THEN owners_result(original, t, nc)
  ELSE IF general_management_hit(t) THEN general_management_result(original, nc)
  ELSE IF c_suite_hit(t) THEN c_suite_result(original, t, nc)
  ELSE IF area_roles_hit(t) THEN area_roles_result(original, t, nc)
  ELSE IF ejecutivo_hit(t) THEN ejecutivo_result(original, t, nc)
  ELSE IF solo_title_hit(t) THEN solo_title_result(original, t, nc)
  ELSE IF standalone_hit(t) THEN standalone_result(original, t, nc)
  ELSE IF pm_router_hit(t) THEN pm_router_result(original, t, nc)
  ELSE IF departments_hit(t, external_excludes)
       THEN departments_result(original, t, external_excludes, nc)
  ELSE no_match_result(original)

_classify_one_internal(job_title, external_excludes, nc) ==
  LET original == job_title
      n == norm(job_title, nc)
      t == n.ret
  IN [ret |-> IF fast_path_hit(job_title, external_excludes)
              THEN fast_path_result(original, n.nc)
              ELSE full_pipeline(original, t, external_excludes, n.nc),
      nc  |-> n.nc,
      cc  |-> IF external_excludes = <<>> THEN {}
              ELSE any_match_compiled(t, external_excludes)]

(***************************************************************************)
(* The compiled-pattern cache.  _compiled_regex_cache has no cap and       *)
(* nothing is ever removed from it.  The keys the program's own tables     *)
(* put there are a fixed, finite set; the variable is the rest of the      *)
(* keys: the patterns of callers that are not patterns of the program.     *)
(* r is what _classify_one_internal or classify_one returned, r.cc the     *)
(* patterns of the caller it passed to get_compiled_regex.                 *)
(***************************************************************************)
\* The patterns the program itself passes to get_compiled_regex: those of its
\* tables.  PM_PATTERN is only ever passed to re.search.
ProgramPatterns == {RegexTable[i][1] : i \in DOMAIN RegexTable} \ {PM_PATTERN}

compiled_regex_cache_after(cache, r) == cache \cup (r.cc \ ProgramPatterns)

(***************************************************************************)
(* The result cache.                                                       *)
(***************************************************************************)
_cache_max_size == 40

cache_key(role) == strip(lower(role))

get_cached_result(role, rc) ==
  LET i == cache_find(rc, cache_key(role))
  IN IF i = 0 THEN None ELSE <<rc[i].val>>

\* cache_result making room by removing the entry stored last.
cache_result_newest_removed(role, result, rc) ==
  LET key == cache_key(role)
      kept == IF Len(rc) >= _cache_max_size THEN SubSeq(rc, 1, Len(rc) - 1) ELSE rc
      i == cache_find(kept, key)
  IN IF i = 0 THEN Append(kept, [key |-> key, val |-> result])
     ELSE [kept EXCEPT ![i].val = result]

cache_result(role, result, rc) ==
  LET key == cache_key(role)
      kept == IF Len(rc) >= _cache_max_size THEN Tail(rc) ELSE rc
      i == cache_find(kept, key)
  IN IF i = 0 THEN Append(kept, [key |-> key, val |-> result])
     ELSE [kept EXCEPT ![i].val = result]

\* Lines 1006-1011: the title was not served from the cache; r is what
\* _classify_one_internal returned.
classify_one_miss(job_title, external_excludes, rc, r) ==
  [ret |-> r.ret,
   rc  |-> IF external_excludes = <<>> THEN cache_result(job_title, r.ret, rc) ELSE rc,
   nc  |-> r.nc,
   cc  |-> r.cc]

\* classify_one looking in the result cache and writing to it whatever the
\* excludes are.
classify_one_cache_always(job_title, external_excludes, rc, nc) ==
  LET cached == get_cached_result(job_title, rc)
      r == _classify_one_internal(job_title, external_excludes, nc)
  IN IF cached # None THEN [ret |-> cached[1], rc |-> rc, nc |-> nc, cc |-> {}]
     ELSE [ret |-> r.ret, rc |-> cache_result(job_title, r.ret, rc), nc |-> r.nc,
           cc |-> r.cc]

classify_one(job_title, external_excludes, rc, nc) ==
  LET cached == IF external_excludes = <<>> THEN get_cached_result(job_title, rc) ELSE None
  IN IF cached # None THEN [ret |-> cached[1], rc |-> rc, nc |-> nc, cc |-> {}]
     ELSE classify_one_miss(job_title, external_excludes, rc,
                            _classify_one_internal(job_title, external_excludes, nc))

\* warm_cache(): the loop over COMMON_ROLES from role a to role b, started
\* with the caches in before.  (The loop is split in halves and before is
\* looked at first, so that the evaluation does not nest as deep as the
\* list is long.)
caches_after(r) == [rc |-> r.rc, nc |-> r.nc]

RECURSIVE warm_cache_loop(_, _, _)
warm_cache_loop(a, b, before) ==
  IF Len(before.rc) < 0 \/ a > b THEN before
  ELSE IF a = b
       THEN caches_after(classify_one(COMMON_ROLES[a], <<>>, before.rc, before.nc))
  ELSE LET m == (a + b) \div 2
       IN warm_cache_loop(m + 1, b, warm_cache_loop(a, m, before))

warm_cache == warm_cache_loop(1, Len(COMMON_ROLES), [rc |-> <<>>, nc |-> <<>>])

(***************************************************************************)
(* The endpoint's reading of its excludes string.                          *)
(***************************************************************************)
\* The k-th smallest element of a set of numbers.
Nth(S, k) == CHOOSE x \in S : Cardinality({y \in S : y < x}) = k - 1

\* s.split(","), each piece stripped, the empty ones dropped.
split_csv(s) ==
  IF s = "" THEN <<>>
  ELSE LET cuts == {0, Len(s) + 1} \cup {i \in 1 .. Len(s) : CharAt(s, i) = ","}
           pieces == [k \in 1 .. (Cardinality(cuts) - 1) |->
                        strip(SubSeq(s, Nth(cuts, k) + 1, Nth(cuts, k + 1) - 1))]
       IN SelectSeq(pieces, LAMBDA x : x # "")

\* The characters re.escape puts a backslash before.
SpecialChars ==
  {"(", ")", "[", "]", "{", "}", "?", "*", "+", "-", "|", "^", "$", "\\", ".", "&", "~",
   "#", " ", "\t"}

re_escape(s) ==
  join([i \in 1 .. Len(s) |->
          IF CharAt(s, i) \in SpecialChars THEN "\\" \o CharAt(s, i) ELSE CharAt(s, i)],
       1, Len(s))

to_regex(items) ==
  [k \in DOMAIN items |->
     IF Len(items[k]) >= 2 /\ startswith(items[k], "/") /\ endswith(items[k], "/")
     THEN SubSeq(items[k], 2, Len(items[k]) - 1)
     ELSE "\\b" \o re_escape(items[k]) \o "\\b"]

(***************************************************************************)
(* The service: the module is loaded, which ends with warm_cache(); then    *)
(* come calls of classify_one and requests to the endpoint.  call is the   *)
(* last operation: its name, its arguments, the record it returned and,    *)
(* for the normalizer, the strings it returned.                            *)
(***************************************************************************)
MaxCalls == 2

\* The worker threads, none of them serving a request.
Threads == {1, 2}

NoThreads == [th \in Threads |-> [pc |-> "idle"]]

NoRecord == create_result("", FALSE, "", "", "", "", <<>>)

Titles == {"CEO", "ceo", "Astronaut", "astronaut", " project manager", "Director", "a", ""}

ExcludeLists == {<<>>, <<"\\bceo\\b", "\\bmanager\\b">>}

ExcludeStrings == {"", " ceo , /\\bmanager\\b/,"}

Init ==
  /\ re_compile = compile
  /\ _compiled_regex_cache = {}
  /\ _result_cache = <<>>
  /\ _norm_cache = <<>>
  /\ call = [op |-> "load", title |-> "", excludes |-> <<>>, ret |-> NoRecord,
             text |-> <<>>]
  /\ calls = 0
  /\ threads = NoThreads

\* The call of warm_cache() at line 1170, before any request is served.
WarmCache ==
  /\ call.op = "load"
  /\ \E warmed \in {warm_cache} :
       /\ _result_cache' = warmed.rc
       /\ _norm_cache' = warmed.nc
  /\ call' = [call EXCEPT !.op = "warm_cache"]
  /\ UNCHANGED <<re_compile, _compiled_regex_cache, calls, threads>>

ClassifyOne(job_title, external_excludes) ==
  /\ call.op # "load"
  /\ calls < MaxCalls
  /\ \E r \in {classify_one(job_title, external_excludes, _result_cache, _norm_cache)} :
       /\ _result_cache' = r.rc
       /\ _norm_cache' = r.nc
       /\ _compiled_regex_cache' = compiled_regex_cache_after(_compiled_regex_cache, r)
       /\ call' = [op |-> "classify_one", title |-> job_title,
                   excludes |-> external_excludes, ret |-> r.ret, text |-> <<>>]
  /\ calls' = calls + 1
  /\ UNCHANGED <<re_compile, threads>>

\* POST /classify
Classify(job_title, excludes) ==
  /\ call.op # "load"
  /\ calls < MaxCalls
  /\ LET external_excludes == IF excludes = "" \/ strip(excludes) = "" THEN <<>>
                              ELSE to_regex(split_csv(excludes))
     IN IF job_title = "" \/ Len(strip(job_title)) < 2
        THEN /\ call' = [op |-> "classify", title |-> job_title,
                         excludes |-> external_excludes,
                         ret |-> create_result(job_title, FALSE, "", "", "", "",
                                               [empty_input |-> TRUE]),
                         text |-> <<>>]
             /\ UNCHANGED <<_compiled_regex_cache, _result_cache, _norm_cache>>
        ELSE \E r \in {classify_one(job_title, external_excludes, _result_cache,
                                    _norm_cache)} :
               /\ _result_cache' = r.rc
               /\ _norm_cache' = r.nc
               /\ _compiled_regex_cache' =
                    compiled_regex_cache_after(_compiled_regex_cache, r)
               /\ call' = [op |-> "classify", title |-> job_title,
                           excludes |-> external_excludes, ret |-> r.ret, text |-> <<>>]
  /\ calls' = calls + 1
  /\ UNCHANGED <<re_compile, threads>>

Next ==
  \/ WarmCache
  \/ \E job_title \in Titles, external_excludes \in ExcludeLists :
       ClassifyOne(job_title, external_excludes)
  \/ \E job_title \in Titles, excludes \in ExcludeStrings :
       Classify(job_title, excludes)

Spec == Init /\ [][Next]_vars

(***************************************************************************)
(* The pipeline as a function of its arguments: a title and a list of      *)
(* excludes are drawn, and _classify_one_internal is applied to them with  *)
(* empty caches.  A title is up to MaxWords words in a row, single spaces  *)
(* between them, with or without a space in front.                         *)
(***************************************************************************)
MaxWords == 2

RECURSIVE Phrases(_, _)
Phrases(words, n) ==
  IF n = 1 THEN words
  ELSE Phrases(words, n - 1) \cup {p \o " " \o w : p \in Phrases(words, n - 1), w \in words}

PipeWords ==
  {"CEO", "CHRO", "Founder", "Project", "Manager", "Marketing", "Director", "Astronaut",
   "General", "Regional", "Area", "Sales"}

PipeTitles ==
  Phrases(PipeWords, MaxWords) \cup {" " \o p : p \in Phrases(PipeWords, MaxWords)}

PipeExcludes == {<<>>, <<"\\bsales\\b">>}

Input(job_title, external_excludes) ==
  [op |-> "input", title |-> job_title, excludes |-> external_excludes, ret |-> NoRecord,
   text |-> <<>>]

PipeInit ==
  /\ re_compile = compile
  /\ _compiled_regex_cache = {}
  /\ _result_cache = <<>>
  /\ _norm_cache = <<>>
  /\ call \in {Input(job_title, external_excludes) :
                 job_title \in PipeTitles, external_excludes \in PipeExcludes}
  /\ calls = 0
  /\ threads = NoThreads

Pipeline ==
  /\ call.op = "input"
  /\ \E r \in {_classify_one_internal(call.title, call.excludes, _norm_cache)} :
       /\ _norm_cache' = r.nc
       /\ _compiled_regex_cache' = compiled_regex_cache_after(_compiled_regex_cache, r)
       /\ call' = [call EXCEPT !.op = "_classify_one_internal", !.ret = r.ret]
  /\ calls' = calls + 1
  /\ UNCHANGED <<re_compile, _result_cache, threads>>

PipeNext == Pipeline

PipeSpec == PipeInit /\ [][PipeNext]_vars

(***************************************************************************)
(* The same, on titles of department words, for the department loop.       *)
(***************************************************************************)
MaxDeptWords == 3

DeptWords == {"Marketing", "Brand", "Sales", "Account", "IT", "Manager"}

DeptTitles == Phrases(DeptWords, MaxDeptWords) \cup {"Marketing and Sales Manager"}

DeptInit ==
  /\ re_compile = compile
  /\ _compiled_regex_cache = {}
  /\ _result_cache = <<>>
  /\ _norm_cache = <<>>
  /\ call \in {Input(job_title, <<>>) : job_title \in DeptTitles}
  /\ calls = 0
  /\ threads = NoThreads

DeptNext == Pipeline

DeptSpec == DeptInit /\ [][DeptNext]_vars

(***************************************************************************)
(* The normalizer: a string is drawn; norm may first be applied to it or   *)
(* to its normalized form, which fills the cache; then norm is applied to  *)
(* the string, and again to what that gave.                                *)
(***************************************************************************)
MaxLen == 3

NormAlphabet == {"a", "A", " ", "\t", "3", "8"}

RECURSIVE Strings(_, _)
Strings(alphabet, n) ==
  IF n = 0 THEN {""}
  ELSE Strings(alphabet, n - 1) \cup {s \o c : s \in Strings(alphabet, n - 1), c \in alphabet}

NormInit ==
  /\ re_compile = compile
  /\ _compiled_regex_cache = {}
  /\ _result_cache = <<>>
  /\ _norm_cache = <<>>
  /\ call \in {Input(x, <<>>) : x \in Strings(NormAlphabet, MaxLen)}
  /\ calls = 0
  /\ threads = NoThreads

\* An earlier call of norm, whose result is not looked at.
NormBefore(s) ==
  /\ call.op = "input"
  /\ s # ""
  /\ cache_find(_norm_cache, s) = 0
  /\ _norm_cache' = norm(s, _norm_cache).nc
  /\ UNCHANGED <<re_compile, _compiled_regex_cache, _result_cache, call, calls, threads>>

NormOnce ==
  /\ call.op = "input"
  /\ LET r == norm(call.title, _norm_cache)
     IN /\ _norm_cache' = r.nc
        /\ call' = [call EXCEPT !.op = "norm", !.text = <<r.ret>>]
  /\ calls' = calls + 1
  /\ UNCHANGED <<re_compile, _compiled_regex_cache, _result_cache, threads>>

NormTwice ==
  /\ call.op = "norm"
  /\ Len(call.text) = 1
  /\ LET r == norm(call.text[1], _norm_cache)
     IN /\ _norm_cache' = r.nc
        /\ call' = [call EXCEPT !.text = Append(call.text, r.ret)]
  /\ calls' = calls + 1
  /\ UNCHANGED <<re_compile, _compiled_regex_cache, _result_cache, threads>>

NormNext ==
  \/ \E s \in {call.title, norm_value(call.title)} : NormBefore(s)
  \/ NormOnce
  \/ NormTwice

NormSpec == NormInit /\ [][NormNext]_vars

(***************************************************************************)
(* Requests whose excludes do not all compile, or are patterns of no table *)
(* of the program: the module is loaded, then come requests to the         *)
(* endpoint.                                                               *)
(***************************************************************************)
RequestTitles == {"CEO", "Astronaut", "Pilot", ""}

RequestExcludes == {"/(/", "ceo,/(/", "/(/,ceo", "astronaut", "/\\bpilot\\b/,astronaut"}

ExcludeNext ==
  \/ WarmCache
  \/ \E job_title \in RequestTitles, excludes \in RequestExcludes :
       Classify(job_title, excludes)

ExcludeSpec == Init /\ [][ExcludeNext]_vars

(***************************************************************************)
(* Requests served at the same time.  The endpoint is a plain function,    *)
(* which the server runs in worker threads; no lock guards the caches.  A  *)
(* thread runs classify_one(job_title, []) statement by statement: the     *)
(* lookup of line 1000, the pipeline of line 1005, and in cache_result the *)
(* size check of line 263, the pick of the oldest key of line 265, its     *)
(* removal of line 266 and the store of line 267.  Before the threads      *)
(* start, the cache is filled by requests served one after the other.      *)
(***************************************************************************)
\* A title no rule matches, of n + 1 characters.
RECURSIVE Filler(_)
Filler(n) == IF n = 0 THEN "q" ELSE Filler(n - 1) \o "q"

RaceTitles == {"yy", "zz"}

\* del _result_cache[key]
cache_delete(rc, key) == SelectSeq(rc, LAMBDA e : e.key # key)

\* _result_cache[key] = result
cache_store(rc, key, result) ==
  LET i == cache_find(rc, key)
  IN IF i = 0 THEN Append(rc, [key |-> key, val |-> result])
     ELSE [rc EXCEPT ![i].val = result]

\* One more request served alone, while the cache is not full.
Fill ==
  /\ call.op # "load"
  /\ threads = NoThreads
  /\ Len(_result_cache) < _cache_max_size
  /\ \E r \in {classify_one(Filler(Len(_result_cache)), <<>>, _result_cache, _norm_cache)} :
       /\ _result_cache' = r.rc
       /\ _norm_cache' = r.nc
       /\ call' = [op |-> "classify_one", title |-> Filler(Len(_result_cache)),
                   excludes |-> <<>>, ret |-> r.ret, text |-> <<>>]
  /\ calls' = calls + 1
  /\ UNCHANGED <<re_compile, _compiled_regex_cache, threads>>

\* Line 1000: cached = get_cached_result(job_title), returned if there is one.
Lookup(th, job_title) ==
  /\ call.op # "load"
  /\ Len(_result_cache) >= _cache_max_size - 1
  /\ threads[th].pc = "idle"
  /\ LET cached == get_cached_result(job_title, _result_cache)
     IN threads' = [threads EXCEPT ![th] =
                      IF cached # None
                      THEN [pc |-> "done", job_title |-> job_title, ret |-> cached[1]]
                      ELSE [pc |-> "classify", job_title |-> job_title]]
  /\ UNCHANGED <<re_compile, _compiled_regex_cache, _result_cache, _norm_cache, call, calls>>

\* Line 1005: result = _classify_one_internal(job_title, external_excludes)
Internal(th) ==
  /\ threads[th].pc = "classify"
  /\ \E r \in {_classify_one_internal(threads[th].job_title, <<>>, _norm_cache)} :
       /\ _norm_cache' = r.nc
       /\ threads' = [threads EXCEPT ![th] =
                        [pc |-> "check", job_title |-> threads[th].job_title,
                         result |-> r.ret]]
  /\ UNCHANGED <<re_compile, _compiled_regex_cache, _result_cache, call, calls>>

\* Line 263: if len(_result_cache) >= _cache_max_size
SizeCheck(th) ==
  /\ threads[th].pc = "check"
  /\ threads' = [threads EXCEPT ![th].pc =
                   IF Len(_result_cache) >= _cache_max_size THEN "oldest" ELSE "store"]
  /\ UNCHANGED <<re_compile, _compiled_regex_cache, _result_cache, _norm_cache, call, calls>>

\* Line 265: oldest_key = next(iter(_result_cache))
Oldest(th) ==
  /\ threads[th].pc = "oldest"
  /\ threads' = [threads EXCEPT ![th] =
                   IF _result_cache = <<>>
                   THEN [pc |-> "failed", job_title |-> threads[th].job_title,
                         raised |-> "StopIteration"]
                   ELSE [pc |-> "del", job_title |-> threads[th].job_title,
                         result |-> threads[th].result,
                         oldest_key |-> _result_cache[1].key]]
  /\ UNCHANGED <<re_compile, _compiled_regex_cache, _result_cache, _norm_cache, call, calls>>

\* Line 266: del _result_cache[oldest_key], a KeyError when the key is gone.
Evict(th) ==
  /\ threads[th].pc = "del"
  /\ IF cache_find(_result_cache, threads[th].oldest_key) = 0
     THEN /\ threads' = [threads EXCEPT ![th] =
                           [pc |-> "failed", job_title |-> threads[th].job_title,
                            raised |-> "KeyError"]]
          /\ UNCHANGED _result_cache
     ELSE /\ _result_cache' = cache_delete(_result_cache, threads[th].oldest_key)
          /\ threads' = [threads EXCEPT ![th] =
                           [pc |-> "store", job_title |-> threads[th].job_title,
                            result |-> threads[th].result]]
  /\ UNCHANGED <<re_compile, _compiled_regex_cache, _norm_cache, call, calls>>

\* Line 267: _result_cache[key] = result; then classify_one returns result.
Store(th) ==
  /\ threads[th].pc = "store"
  /\ _result_cache' = cache_store(_result_cache, cache_key(threads[th].job_title),
                                  threads[th].result)
  /\ threads' = [threads EXCEPT ![th] =
                   [pc |-> "done", job_title |-> threads[th].job_title,
                    ret |-> threads[th].result]]
  /\ UNCHANGED <<re_compile, _compiled_regex_cache, _norm_cache, call, calls>>

RaceNext ==
  \/ WarmCache
  \/ Fill
  \/ \E th \in Threads, job_title \in RaceTitles : Lookup(th, job_title)
  \/ \E th \in Threads :
       Internal(th) \/ SizeCheck(th) \/ Oldest(th) \/ Evict(th) \/ Store(th)

RaceSpec == Init /\ [][RaceNext]_vars


(***************************************************************************)
(* Requests for titles of role words, one after the other, through         *)
(* classify_one and its result cache: a title is up to MaxRoleWords words  *)
(* in a row, or one of a few titles of other kinds (empty, unknown, a      *)
(* plural Spanish label, a lower-case spelling, an assistant's title, a    *)
(* junior's title, two technology titles of test_roles.py).                *)
(***************************************************************************)
MaxRoleWords == 2

RoleWords == {"Junior", "IT", "Manager", "CEO"}

RoleTitles ==
  Phrases(RoleWords, MaxRoleWords)
    \cup {"", "Astronaut", "gerentes de ventas", "it manager", "Human resources assistant",
          "Junior IT Manager", "Technical Director", "Head of Engineering"}

RoleExcludes == {<<>>, <<"\\bpilot\\b">>}

RoleNext ==
  \/ WarmCache
  \/ \E job_title \in RoleTitles, external_excludes \in RoleExcludes :
       ClassifyOne(job_title, external_excludes)

RoleSpec == Init /\ [][RoleNext]_vars

(***************************************************************************)
(* The pipeline on titles of seniority words and department names, for the *)
(* stages that look at the whole text.                                     *)
(***************************************************************************)
MaxTitleWords == 3

TitleWords ==
  {"Director", "Manager", "Vice", "President", "Head", "of", "Department", "Marketing",
   "Human", "Resources", "Legal", "Affairs"}

TitleInit ==
  /\ re_compile = compile
  /\ _compiled_regex_cache = {}
  /\ _result_cache = <<>>
  /\ _norm_cache = <<>>
  /\ call \in {Input(job_title, <<>>) : job_title \in Phrases(TitleWords, MaxTitleWords)}
  /\ calls = 0
  /\ threads = NoThreads

TitleNext == Pipeline

TitleSpec == TitleInit /\ [][TitleNext]_vars

(***************************************************************************)
(* Calls of norm on a cache that warm_cache has filled to just below its   *)
(* cap: enough of them to reach the cap and go on.                         *)
(***************************************************************************)
MaxNormCalls == 3

NormStrings == {"", "Pilot", "pilot", " Pilot", "Se7or", "a\tb"}

NormCall(s) ==
  /\ call.op # "load"
  /\ calls < MaxNormCalls
  /\ \E r \in {norm(s, _norm_cache)} :
       /\ _norm_cache' = r.nc
       /\ call' = [op |-> "norm", title |-> s, excludes |-> <<>>, ret |-> NoRecord,
                   text |-> <<r.ret>>]
  /\ calls' = calls + 1
  /\ UNCHANGED <<re_compile, _compiled_regex_cache, _result_cache, threads>>

NormCacheNext ==
  \/ WarmCache
  \/ \E s \in NormStrings : NormCall(s)

NormCacheSpec == Init /\ [][NormCacheNext]_vars

(***************************************************************************)
(* The pipeline on titles of words that the label tables tell apart: area  *)
(* words with and without a special label, seniority words with and        *)
(* without a generic label, project-management and hint words.             *)
(***************************************************************************)
MaxLabelWords == 2

LabelWords ==
  {"Account", "Accountant", "Analytics", "Brand", "Campaign", "Marketing", "Operations",
   "Legal", "PM", "CEO", "Manager", "Director", "Lead", "Department"}

\* Two titles more, of project managers with hints of two departments.
LabelTitles ==
  Phrases(LabelWords, MaxLabelWords) \cup {"Marketing Analytics PM", "Operations Marketing PM"}

LabelInit ==
  /\ re_compile = compile
  /\ _compiled_regex_cache = {}
  /\ _result_cache = <<>>
  /\ _norm_cache = <<>>
  /\ call \in {Input(job_title, <<>>) : job_title \in LabelTitles}
  /\ calls = 0
  /\ threads = NoThreads

LabelSpec == LabelInit /\ [][PipeNext]_vars

(***************************************************************************)
(* The pipeline on titles of the words marketing and sales, a seniority    *)
(* word and an area word of Ventas, with no caller excludes, with one that *)
(* matches none of the titles and with one that matches the word sales.    *)
(***************************************************************************)
MaxSkipWords == 3

SkipInit ==
  /\ re_compile = compile
  /\ _compiled_regex_cache = {}
  /\ _result_cache = <<>>
  /\ _norm_cache = <<>>
  /\ call \in {Input(job_title, external_excludes) :
                 job_title \in Phrases({"Marketing", "Sales", "Account", "Manager"}, MaxSkipWords),
                 external_excludes \in {<<>>, <<"\\bpilot\\b">>, <<"\\bsales\\b">>}}
  /\ calls = 0
  /\ threads = NoThreads

SkipSpec == SkipInit /\ [][PipeNext]_vars
(***************************************************************************)
(* Properties.                                                             *)
(***************************************************************************)
\* C10 (normalizer idempotence): whenever norm has been applied to a string
\* and then to its own result, the second result equals the first, whatever
\* the normalizer cache held.
NormIdempotent ==
  (call.op = "norm" /\ Len(call.text) = 2) => call.text[2] = call.text[1]

\* C1 (exclude veto dominance): whenever classify_one was called with a list
\* of excludes one of which matches the normalized title, the record it
\* returned is negative and its why is excluded_by: external_excludes,
\* whatever the caches held and whatever other rule matches the title.
ExcludeVetoDominates ==
  (call.op = "classify_one" /\ any_match(norm_value(call.title), call.excludes))
    => (~call.ret.is_icp /\ call.ret.why = [excluded_by |-> "external_excludes"])

\* A vetoed call whose title a fast pattern and a C-suite pattern match.
ExcludeVetoOverRules ==
  /\ call.op = "classify_one"
  /\ any_match(norm_value(call.title), call.excludes)
  /\ fast_classify(call.title) # None
  /\ c_suite_hit(norm_value(call.title))
  /\ ~call.ret.is_icp

\* C2 (determinism across calls): the record classify_one returned for a
\* title and a list of excludes is the record the same call returns when it
\* is the first after the module was loaded, whichever calls ran before.
DeterministicAcrossCalls ==
  call.op = "classify_one"
    => \A warmed \in {warm_cache} :
         call.ret = classify_one(call.title, call.excludes, warmed.rc, warmed.nc).ret

\* C3 (shape of negative records): every negative record that classify_one
\* or the endpoint returned, and every negative record in the result cache,
\* has empty department, subdivision, hierarchy_level, role_generic and
\* role_generic_singular, and a why that names its reason.
NegativeReasons ==
  {[excluded_by |-> "external_excludes"], [no_match |-> TRUE], [empty_input |-> TRUE]}

NegativeShape(r) ==
  ~r.is_icp =>
    /\ r.department = "" /\ r.subdivision = "" /\ r.hierarchy_level = ""
    /\ r.role_generic = "" /\ r.role_generic_singular = ""
    /\ r.why # <<>> /\ r.why \in NegativeReasons

NegativeRecordsEmpty ==
  /\ call.op \in {"classify_one", "classify"} => NegativeShape(call.ret)
  /\ \A i \in DOMAIN _result_cache : NegativeShape(_result_cache[i].val)

\* Negative records of each path: a veto, no match, an empty input, and a
\* negative record served from the result cache for another spelling.
NegativeFromCache ==
  /\ call.op = "classify_one"
  /\ ~call.ret.is_icp
  /\ call.ret.input # call.title
  /\ call.ret.why = [no_match |-> TRUE]

\* The stages in the order of the specification: for each, whether its
\* condition holds on the title (fast is the condition of the fast path),
\* and the record it produces.
StageHits(t, external_excludes, fast) ==
  <<external_excludes_hit(t, external_excludes), fast, owners_hit(t),
    general_management_hit(t), c_suite_hit(t), area_roles_hit(t) \/ ejecutivo_hit(t),
    solo_title_hit(t), standalone_hit(t), pm_router_hit(t),
    departments_hit(t, external_excludes), TRUE>>

EarliestStage(hits) == Min({k \in DOMAIN hits : hits[k]})

StageRecord(k, original, t, external_excludes, nc) ==
  CASE k = 1 -> external_excludes_result(original)
    [] k = 2 -> fast_path_result(original, nc)
    [] k = 3 -> owners_result(original, t, nc)
    [] k = 4 -> general_management_result(original, nc)
    [] k = 5 -> c_suite_result(original, t, nc)
    [] k = 6 -> IF area_roles_hit(t) THEN area_roles_result(original, t, nc)
                ELSE ejecutivo_result(original, t, nc)
    [] k = 7 -> solo_title_result(original, t, nc)
    [] k = 8 -> standalone_result(original, t, nc)
    [] k = 9 -> pm_router_result(original, t, nc)
    [] k = 10 -> departments_result(original, t, external_excludes, nc)
    [] k = 11 -> no_match_result(original)

ReturnsEarliest(fast) ==
  call.ret = StageRecord(EarliestStage(StageHits(norm_value(call.title), call.excludes, fast)),
                         call.title, norm_value(call.title), call.excludes, _norm_cache)

\* C4 (first positive stage wins), as stated: the record returned is that
\* of the earliest stage, in the order caller excludes, fast path, owners,
\* general management, C-suite map, area/role overrides, solo titles,
\* standalone departments, project-manager router, department iteration, no
\* match, whose condition holds on the title; the fast path's condition
\* being that a fast pattern matches the title.
FirstStageWinsAsStated ==
  call.op = "_classify_one_internal" => ReturnsEarliest(fast_classify(call.title) # None)

\* C4, amended: the same, the fast path's condition being that no excludes
\* were given and a fast pattern matches the title.
FirstStageWins ==
  call.op = "_classify_one_internal"
    => ReturnsEarliest(call.excludes = <<>> /\ fast_classify(call.title) # None)

\* A call with excludes, none of which matches, on a title that a fast
\* pattern matches: a later stage gave the record.
FastPatternWithExcludes ==
  /\ call.op = "_classify_one_internal"
  /\ call.excludes # <<>>
  /\ ~external_excludes_hit(norm_value(call.title), call.excludes)
  /\ fast_classify(call.title) # None
  /\ call.ret.is_icp
  /\ call.ret.why # [matched |-> "fast_path"]

\* What C5 and C6 compare of a record.
Classification(r) ==
  <<r.is_icp, r.department, r.role_generic, r.subdivision, r.hierarchy_level>>

\* C5 (fast-path equivalence): whenever _classify_one_internal was called
\* with no excludes on a title that a fast pattern matches, the is_icp,
\* department, role_generic, subdivision and hierarchy_level it returned
\* are those the pipeline without the fast path produces for the title.
FastPathEquivalent ==
  (call.op = "_classify_one_internal" /\ call.excludes = <<>>
     /\ fast_classify(call.title) # None)
    => Classification(call.ret)
         = Classification(full_pipeline(call.title, norm_value(call.title), <<>>,
                                        _norm_cache))

\* Other spellings of a title: in lower case, with a space in front, with a
\* space behind.
Spellings(s) == {lower(s), " " \o s, s \o " "}

\* C6 (classification depends only on the normalized text): whenever
\* _classify_one_internal was called with no excludes, every other spelling
\* of the title with the same normalized text, classified with no excludes
\* and empty caches, gets the same is_icp, department, subdivision,
\* hierarchy_level and role_generic.
SameNormSameClassification ==
  (call.op = "_classify_one_internal" /\ call.excludes = <<>>)
    => \A other \in Spellings(call.title) :
         norm_value(other) = norm_value(call.title)
           => Classification(_classify_one_internal(other, <<>>, <<>>).ret)
                = Classification(call.ret)

\* C7 (owner/C-suite precedence): whenever _classify_one_internal returned
\* for a title that the excludes did not veto, if an OWNERS pattern and the
\* patterns of a C_SUITE_MAP entry match the normalized title, the record
\* has the role label and the department of the first such entry; and the
\* record has role propietarios only with department Ejecutivo, an OWNERS
\* pattern matching and no C-suite pattern matching.
OwnerCSuitePrecedence ==
  (call.op = "_classify_one_internal"
     /\ ~external_excludes_hit(norm_value(call.title), call.excludes))
    => \A i \in {c_suite_index(norm_value(call.title))} :
         /\ (owners_hit(norm_value(call.title)) /\ i # 0)
              => /\ call.ret.role_generic = C_SUITE_MAP[i][2]
                 /\ call.ret.department = C_SUITE_MAP[i][3]
         /\ call.ret.role_generic = "propietarios"
              => /\ call.ret.department = "Ejecutivo"
                 /\ owners_hit(norm_value(call.title))
                 /\ i = 0

\* The profile of a department, and whether the department iteration gave
\* the record of the last call.
Profile(name) == DEPARTMENTS[CHOOSE k \in DOMAIN DEPARTMENTS : DEPARTMENTS[k].name = name]

FromDepartments ==
  /\ call.op = "_classify_one_internal"
  /\ call.ret.is_icp
  /\ call.ret.why \in {[must |-> TRUE, seniority |-> TRUE, exclude |-> FALSE, matched |-> m] :
                         m \in {"area+seniority/special", "fallback"}}

\* C8 (Marketing over Sales), as stated: the department iteration never
\* gives Ventas for a title that a must pattern of Marketing matches, and
\* "Marketing and Sales Manager" gets department Marketing.
NoSalesOnMarketingMust ==
  /\ (FromDepartments /\ any_match(norm_value(call.title), Profile("Marketing").must))
       => call.ret.department # "Ventas"
  /\ (call.op = "_classify_one_internal" /\ call.title = "Marketing and Sales Manager")
       => call.ret.department = "Marketing"

\* C8, amended: the department iteration never gives Ventas for a title
\* whose normalized text has the word marketing, and "Marketing and Sales
\* Manager" gets department Marketing.
NoSalesOnMarketingWord ==
  /\ (FromDepartments /\ re_search("\\bmarketing\\b", norm_value(call.title)))
       => call.ret.department # "Ventas"
  /\ (call.op = "_classify_one_internal" /\ call.title = "Marketing and Sales Manager")
       => call.ret.department = "Marketing"

\* The department iteration answered for a title with the word marketing
\* that a must pattern of Ventas matches and that Marketing does not take.
MarketingWordSalesMust ==
  /\ FromDepartments
  /\ re_search("\\bmarketing\\b", norm_value(call.title))
  /\ any_match(norm_value(call.title), Profile("Ventas").must)
  /\ call.ret.department # "Marketing"

\* The departments whose gate a title passes: a must and a seniority
\* pattern match, no exclude of the department or of the caller does.
PassingDepartments(t, external_excludes) ==
  {DEPARTMENTS[k].name : k \in
     {j \in DOMAIN DEPARTMENTS :
        /\ any_match(t, DEPARTMENTS[j].must)
        /\ any_match(t, DEPARTMENTS[j].seniority)
        /\ ~any_match(t, DEPARTMENTS[j].exclude)
        /\ ~any_match(t, external_excludes)}}

FirstPassing(order) ==
  order[Min({k \in DOMAIN order :
               order[k] \in PassingDepartments(norm_value(call.title), call.excludes)})]

\* C9 (department order), as stated: the department iteration gives the
\* first department that passes the gate in the order Marketing, Sales,
\* Technology, Finance, HR, Legal, Operations, Product, Projects.
DepartmentOrderAsStated ==
  FromDepartments
    => call.ret.department
         = FirstPassing(<<"Marketing", "Ventas", "Tecnologia", "Finanzas", "RR. HH.", "Legal",
                          "Operaciones", "Producto", "Proyectos">>)

\* C9, amended: the same in the order Marketing, Technology, Sales,
\* Finance, HR, Legal, Operations, Product, Projects.
DepartmentOrder ==
  FromDepartments
    => call.ret.department
         = FirstPassing(<<"Marketing", "Tecnologia", "Ventas", "Finanzas", "RR. HH.", "Legal",
                          "Operaciones", "Producto", "Proyectos">>)

\* The department iteration answered for a title that passes the gates of
\* Tecnologia and of Ventas.
TechnologyAndSalesPass ==
  /\ FromDepartments
  /\ {"Tecnologia", "Ventas"}
       \subseteq PassingDepartments(norm_value(call.title), call.excludes)


(***************************************************************************)
(* Callers' excludes.                                                      *)
(***************************************************************************)
\* Some exclude of the list does not compile.
Malformed(external_excludes) == first_error(external_excludes) <= Len(external_excludes)

\* C11 (a malformed exclude fails closed): a request one of whose excludes
\* does not compile, at whatever position of the list and for whatever
\* title, is answered by the error and never by a classification record.
MalformedExcludeRejected ==
  (call.op = "classify" /\ Malformed(call.excludes)) => call.ret = re_error

\* C12 (the result cache is for calls without excludes): a classify_one call
\* with a non-empty exclude list leaves the result cache as it was, and what
\* it returns is what the pipeline gives for its arguments, not an entry of
\* the cache.
ExcludesBypassResultCache ==
  [][(call'.op = "classify_one" /\ calls' = calls + 1 /\ call'.excludes # <<>>)
       => /\ _result_cache' = _result_cache
          /\ call'.ret = _classify_one_internal(call'.title, call'.excludes, _norm_cache).ret]_vars

\* A call with excludes on a title the result cache has an entry for, which
\* is not what the call returned.
CachedTitleWithExcludes ==
  /\ call.op = "classify_one"
  /\ call.excludes # <<>>
  /\ get_cached_result(call.title, _result_cache) # None
  /\ get_cached_result(call.title, _result_cache) # <<call.ret>>

\* C13 (callers' excludes are ephemeral): after a call with excludes, no
\* cache of the process has an entry under one of the exclude patterns of
\* the call: not the compiled-pattern cache, not the result cache, not the
\* normalizer's cache.
ExcludesEphemeral ==
  (call.op \in {"classify", "classify_one"} /\ call.excludes # <<>>)
    => \A i \in DOMAIN call.excludes :
         /\ call.excludes[i] \notin _compiled_regex_cache
         /\ cache_find(_result_cache, call.excludes[i]) = 0
         /\ cache_find(_norm_cache, call.excludes[i]) = 0

(***************************************************************************)
(* The result cache.                                                       *)
(***************************************************************************)
\* C14 (the result cache is keyed by the raw title): every entry of the
\* result cache is stored under the very string its record was computed
\* for, so that titles differing in case or in surrounding whitespace have
\* entries of their own.
ResultCacheKeyedByRawInput ==
  \A i \in DOMAIN _result_cache : _result_cache[i].key = _result_cache[i].val.input

\* C15 (cache races are benign): however the steps of classify_one calls
\* served at the same time interleave, no call fails and the result cache
\* never holds more entries than its cap.
CacheRacesBenign ==
  /\ \A th \in Threads : threads[th].pc # "failed"
  /\ Len(_result_cache) <= _cache_max_size


\* A Classification Record: the fields create_result gives, not an error.
WellFormed(r) ==
  DOMAIN r = {"input", "is_icp", "department", "subdivision", "hierarchy_level",
              "role_generic", "role_generic_singular", "why"}

\* No caller exclude matches the title and no stage's condition holds on it.
NoStageMatches(job_title, external_excludes) ==
  EarliestStage(StageHits(norm_value(job_title), external_excludes,
                          fast_classify(job_title) # None)) = 11

\* C16 (no match): classify_one returns a well-formed record for every
\* title, the empty one included, and the record is the negative one with
\* why = {no_match: true} exactly when no caller exclude matches the title
\* and none of the stages (fast path, owners, general management, C-suite,
\* overrides, solo title, standalone department, project-manager router,
\* department gates) matches it.
NoMatchExactly ==
  call.op = "classify_one" =>
    /\ WellFormed(call.ret)
    /\ (~call.ret.is_icp /\ call.ret.why = [no_match |-> TRUE])
         <=> NoStageMatches(call.title, call.excludes)

\* The texts the SOLO_TITLES patterns describe, written out.
SoloTerms ==
  {"vp", "vicepresident", "vice president", "vicepresidente", "vice presidente",
   "president", "presidente", "director", "directora", "gerente", "manager",
   "ejecutivo", "ejecutiva", "ejecutivos", "ejecutivas", "administracion",
   "administrativo", "administrativa", "administrativos", "administrativas",
   "head of department"}

\* The spellings of RR. HH.: each letter may be followed by a dot and by a
\* space.
RRHHTerms ==
  {"r" \o d[1] \o s[1] \o "r" \o d[2] \o s[2] \o "h" \o d[3] \o s[3] \o "h" \o d[4] :
     d \in [1 .. 4 -> {"", "."}], s \in [1 .. 3 -> {"", " "}]}

\* The texts the DEPT_STANDALONE patterns describe, written out.
StandaloneTerms ==
  {"marketing", "mkt", "it", "ti", "sistemas", "tecnologia", "technology", "tech",
   "ventas", "sales", "comercial", "comerciales", "finanza", "finanzas", "finance",
   "financial", "contabilidad", "accounting", "recursos humanos", "hr",
   "human resources", "people", "legal", "juridico", "law", "legal affairs",
   "operaciones", "operations", "ops", "logistica", "logistics", "supplychain",
   "supply chain"} \cup RRHHTerms

DecidedBy(stage) ==
  call.op = "_classify_one_internal" /\ call.ret.why = [matched |-> stage]

\* What C17 says of the two example titles.
WholeStringExamples ==
  /\ (call.op = "_classify_one_internal" /\ call.title = "Director")
       => call.ret.department = "Ejecutivo" /\ call.ret.role_generic = "directores"
  /\ (call.op = "_classify_one_internal" /\ call.title = "Marketing")
       => /\ call.ret.department = "Marketing"
          /\ call.ret.role_generic = "responsables de marketing"

FirstWord(s) == SubSeq(s, 1, find(s \o " ", " ") - 1)

\* The department loop returned a label made by the generic template
\* "{seniority} de {area}": no special label applies and the title has a
\* seniority.
GenericLabelReturned ==
  /\ call.op = "_classify_one_internal"
  /\ call.ret.is_icp
  /\ "must" \in DOMAIN call.ret.why
  /\ detect_first(norm_value(call.title), Profile(call.ret.department).specials) = ""
  /\ seniority_label(norm_value(call.title)) # ""

\* C18 (singularization of generic labels): for a label made by the generic
\* template, role_generic_singular ends with the same " de {area}" as
\* role_generic, and its first word is a strict prefix of role_generic's
\* first word and is the singular of that word, as singular_map gives it
\* for the word alone.
GenericSingular ==
  GenericLabelReturned =>
    LET role == call.ret.role_generic
        singular == call.ret.role_generic_singular
        sen == seniority_label(norm_value(call.title))
        word == FirstWord(role)
        singular_word == FirstWord(singular)
    IN /\ endswith(singular, SubSeq(role, Len(sen) + 1, Len(role)))
       /\ Len(singular_word) < Len(word) /\ startswith(word, singular_word)
       /\ dict_get(singular_map, word) # None
            => dict_get(singular_map, word) = <<singular_word>>

\* classify_one was called without excludes on a title that has one of the
\* exclude terms every department shares.
CommonExcludeTitle ==
  /\ call.op = "classify_one"
  /\ call.excludes = <<>>
  /\ any_match(norm_value(call.title), EXCLUDE_COMMON)

\* No stage before the department loop decides the title.
ReachesDepartments(job_title) ==
  LET hits == StageHits(norm_value(job_title), <<>>, fast_classify(job_title) # None)
  IN \A k \in 2 .. 9 : ~hits[k]

\* C19 (common exclude terms disqualify), as stated: a title whose
\* normalized text has one of the exclude terms shared by every department
\* is never returned by classify_one(title, []) with is_icp = true or with
\* a department.
CommonExcludeDisqualifiesAsStated ==
  CommonExcludeTitle => ~call.ret.is_icp /\ call.ret.department = ""

\* C19, amended: such a title is never returned with is_icp = true or with
\* a department when no stage before the department loop decides it.
CommonExcludeDisqualifies ==
  (CommonExcludeTitle /\ ReachesDepartments(call.title))
    => ~call.ret.is_icp /\ call.ret.department = ""

\* A title with a common exclude term that has the must and the seniority
\* of a department, and was returned as not ICP.
ExcludedFromDepartment ==
  /\ CommonExcludeTitle
  /\ ReachesDepartments(call.title)
  /\ \E k \in DOMAIN DEPARTMENTS :
       /\ any_match(norm_value(call.title), DEPARTMENTS[k].must)
       /\ any_match(norm_value(call.title), DEPARTMENTS[k].seniority)
  /\ ~call.ret.is_icp

\* classify_one was called without excludes on a title that has a must and
\* a seniority of Tecnologia and none of its excludes.
TechnologyTitle ==
  /\ call.op = "classify_one"
  /\ call.excludes = <<>>
  /\ any_match(norm_value(call.title), Profile("Tecnologia").must)
  /\ any_match(norm_value(call.title), Profile("Tecnologia").seniority)
  /\ ~any_match(norm_value(call.title), Profile("Tecnologia").exclude)

\* C20 (technology titles are detected): for a title whose normalized text
\* matches a must pattern and a seniority pattern of Tecnologia and none of
\* its exclude patterns, classify_one(title, []) returns is_icp = true with
\* a role_generic and a department, whatever the caches hold.
TechnologyDetected ==
  TechnologyTitle
    => call.ret.is_icp /\ call.ret.role_generic # "" /\ call.ret.department # ""

\* A technology title that the department loop gave to Tecnologia.
TechnologyByDepartmentLoop ==
  /\ TechnologyTitle
  /\ call.ret.is_icp
  /\ call.ret.department = "Tecnologia"
  /\ "must" \in DOMAIN call.ret.why


(***************************************************************************)
(* The department loop, its labels and levels.                             *)
(***************************************************************************)
\* The place of a department in DEPARTMENTS.
Declared(name) == CHOOSE k \in DOMAIN DEPARTMENTS : DEPARTMENTS[k].name = name

\* C21 (department gate soundness): whenever the department iteration
\* gives a record for department D, a must pattern and a seniority pattern
\* of D match the normalized title, no exclude of D and no exclude of the
\* caller matches it, and every department declared before D fails that
\* gate.
DepartmentGateSound ==
  FromDepartments =>
    LET t == norm_value(call.title)
        D == Profile(call.ret.department)
    IN /\ any_match(t, D.must)
       /\ any_match(t, D.seniority)
       /\ ~any_match(t, D.exclude)
       /\ ~any_match(t, call.excludes)
       /\ \A j \in 1 .. (Declared(call.ret.department) - 1) :
            DEPARTMENTS[j].name \notin PassingDepartments(t, call.excludes)

\* The department iteration gave a record to a caller who gave excludes,
\* at a department that is not the first one declared.
GateWithCallerExcludes ==
  /\ FromDepartments
  /\ call.excludes # <<>>
  /\ Declared(call.ret.department) > 1


(***************************************************************************)
(* The caches' bounds.                                                     *)
(***************************************************************************)
\* C22 (result cache bound and eviction): the result cache never holds
\* more than _cache_max_size entries; a call of classify_one without
\* excludes for a key the cache has leaves the cache as it is, the order of
\* its entries included; for a key the cache does not have, it appends the
\* new entry, after removing the entry stored earliest, and only that one,
\* when the cache is at its cap.  A call with excludes leaves the cache as
\* it is.
ResultCacheFifo ==
  [][call'.op = "classify_one" =>
       LET key == cache_key(call'.title)
           entry == [key |-> key, val |-> call'.ret]
       IN /\ Len(_result_cache') <= _cache_max_size
          /\ IF call'.excludes # <<>> \/ cache_find(_result_cache, key) # 0
             THEN _result_cache' = _result_cache
             ELSE IF Len(_result_cache) >= _cache_max_size
             THEN _result_cache' = Append(Tail(_result_cache), entry)
             ELSE _result_cache' = Append(_result_cache, entry)]_vars

\* The cache is at its cap and its last two entries came from requests, not
\* from warm_cache: the second of them took the place of the oldest entry.
OldestEvicted ==
  /\ call.op = "classify_one"
  /\ Len(_result_cache) = _cache_max_size
  /\ \A i \in {_cache_max_size - 1, _cache_max_size} :
       _result_cache[i].key \notin {cache_key(COMMON_ROLES[k]) : k \in DOMAIN COMMON_ROLES}

\* C23 (normalizer cache): the normalizer cache never holds more than
\* _norm_cache_max_size entries; no step removes or overwrites an entry;
\* once the cache is at its cap no step adds one; and norm gives the value
\* it computes for a string whether or not the cache has the string.
NormCacheAppendOnly ==
  [][/\ Len(_norm_cache') <= _norm_cache_max_size
     /\ Len(_norm_cache') >= Len(_norm_cache)
     /\ SubSeq(_norm_cache', 1, Len(_norm_cache)) = _norm_cache
     /\ Len(_norm_cache) >= _norm_cache_max_size => _norm_cache' = _norm_cache
     /\ call'.op = "norm" => call'.text = <<norm_value(call'.title)>>]_vars

\* norm was called, with the cache at its cap, on a string the cache does
\* not have.
NormCacheFull ==
  /\ call.op = "norm"
  /\ call.title # ""
  /\ Len(_norm_cache) = _norm_cache_max_size
  /\ cache_find(_norm_cache, call.title) = 0

\* The seniority words of the generic template, in their priority:
\* director-class, VP, manager, lead, coordinator, responsable, controller,
\* accountant, strategist, executive, gestor.
SeniorityPriority ==
  <<"directores", "vicepresidentes", "gerentes", "jefes", "coordinadores", "responsables",
    "responsables de control de gesti0n", "responsables contables", "estrategas",
    "ejecutivos", "gestores">>

\* For the department of the last record: the first special, the first
\* seniority and the first area that match the normalized title, 0 for none.
FirstSpecial == first_match(norm_value(call.title), Column(Profile(call.ret.department).specials, 1))

FirstSeniority == first_match(norm_value(call.title), Column(GEN_SENIORITIES, 1))

FirstArea == first_match(norm_value(call.title), Column(Profile(call.ret.department).areas, 2))

\* C24 (department label selection): the role_generic of a record of the
\* department iteration for department D is the label of the first special
\* of D that matches; with no special, the seniority word of the first
\* matching entry of the priority list, " de ", and the first matching area
\* of D, or D's name in lower case when no area matches; with no seniority
\* word, "encargados de " and D's name in lower case.
DepartmentLabel ==
  FromDepartments =>
    LET D == Profile(call.ret.department)
    IN /\ Column(GEN_SENIORITIES, 2) = SeniorityPriority
       /\ call.ret.role_generic =
            IF FirstSpecial # 0 THEN D.specials[FirstSpecial][2]
            ELSE IF FirstSeniority # 0
            THEN SeniorityPriority[FirstSeniority] \o " de "
                   \o (IF FirstArea # 0 THEN D.areas[FirstArea][1] ELSE lower(D.name))
            ELSE "encargados de " \o lower(D.name)

\* A record of the department iteration for a title that a special label
\* and a seniority word match.
SpecialOverGeneric ==
  /\ FromDepartments
  /\ FirstSpecial # 0
  /\ FirstSeniority # 0

\* The tiers in their priority.
Tiers == <<"C-Suite", "VP/Director", "Manager", "Lead", "Specialist">>

\* The tiers one of whose patterns matches the normalized title.
MatchingTiers ==
  {i \in DOMAIN HIERARCHY_LEVELS :
     any_match(norm_value(call.title), HIERARCHY_LEVELS[i][2])}

\* C25 (hierarchy level): every positive record has the hierarchy_level of
\* the first tier, in the order C-Suite, VP/Director, Manager, Lead,
\* Specialist, one of whose patterns matches the normalized title, and
\* Specialist when no tier matches, whichever stage or department decided
\* the record.
HierarchyLevel ==
  (call.op = "_classify_one_internal" /\ call.ret.is_icp) =>
    /\ Column(HIERARCHY_LEVELS, 1) = Tiers
    /\ call.ret.hierarchy_level =
         IF MatchingTiers = {} THEN "Specialist" ELSE Tiers[Min(MatchingTiers)]

\* A positive record for a title that patterns of two tiers match.
TwoTiersMatch ==
  /\ call.op = "_classify_one_internal"
  /\ call.ret.is_icp
  /\ Cardinality(MatchingTiers) >= 2

\* The entries of the sub-division table of the last record's department
\* one of whose patterns matches the normalized title; none when the
\* department has no table.
MatchingSubdivisions ==
  LET found == dict_get(subdivision_map, call.ret.department)
  IN IF found = None THEN {}
     ELSE {k \in DOMAIN found[1] : any_match(norm_value(call.title), found[1][k][2])}

\* C26 (sub-division): every positive record has the subdivision of the
\* first entry, in declared order, of the sub-division table of its
\* department one of whose patterns matches the normalized title, and
\* "General" when none matches or the department has no table.
Subdivision ==
  (call.op = "_classify_one_internal" /\ call.ret.is_icp) =>
    call.ret.subdivision =
      IF MatchingSubdivisions = {} THEN "General"
      ELSE dict_get(subdivision_map, call.ret.department)[1][Min(MatchingSubdivisions)][1]

\* A positive record for a title that two entries of the department's
\* sub-division table match.
TwoSubdivisionsMatch ==
  /\ call.op = "_classify_one_internal"
  /\ call.ret.is_icp
  /\ Cardinality(MatchingSubdivisions) >= 2

\* The last call was for a title that the project-management pattern matches
\* and that no earlier stage decides.
FromRouter ==
  /\ call.op = "_classify_one_internal"
  /\ EarliestStage(StageHits(norm_value(call.title), call.excludes,
                             call.excludes = <<>> /\ fast_classify(call.title) # None)) = 9

\* The department the hints give: Tecnologia, else Marketing, else
\* Operaciones, else Tecnologia.
RoutedDepartment ==
  LET t == norm_value(call.title)
  IN IF any_match(t, TECH_HINTS) THEN "Tecnologia"
     ELSE IF any_match(t, MKT_HINTS) THEN "Marketing"
     ELSE IF any_match(t, OPS_HINTS) THEN "Operaciones"
     ELSE "Tecnologia"

\* C27 (project-manager router), as stated: for such a title the record is
\* positive, with the department the hints give and the role made of the
\* seniority word detected in the title and " de proyectos".
RouterLabelAsStated ==
  FromRouter =>
    /\ call.ret.is_icp
    /\ call.ret.department = RoutedDepartment
    /\ FirstSeniority # 0
    /\ call.ret.role_generic = GEN_SENIORITIES[FirstSeniority][2] \o " de proyectos"

\* C27, amended: the same, the seniority word being "responsables" when
\* none is detected in the title.
RouterLabel ==
  FromRouter =>
    /\ call.ret.is_icp
    /\ call.ret.department = RoutedDepartment
    /\ call.ret.role_generic =
         (IF FirstSeniority # 0 THEN GEN_SENIORITIES[FirstSeniority][2] ELSE "responsables")
           \o " de proyectos"

\* Such a title without a seniority word, routed by a hint to a department
\* other than Tecnologia.
RoutedWithoutSeniority ==
  /\ FromRouter
  /\ FirstSeniority = 0
  /\ call.ret.department # "Tecnologia"

(***************************************************************************)
(* Caller excludes that match nothing, the input field, and the skip of    *)
(* Ventas.                                                                 *)
(***************************************************************************)

\* The last call was classify_one with caller excludes of which none
\* matches the normalized title.
ExcludesMatchNothing ==
  /\ call.op = "classify_one"
  /\ call.excludes # <<>>
  /\ ~any_match(norm_value(call.title), call.excludes)

\* C28 (non-matching excludes are neutral): classify_one with caller
\* excludes of which none matches the normalized title returns the
\* classification and the why of classify_one for the same title with no
\* excludes on an empty result cache.
NonMatchingExcludesNeutral ==
  ExcludesMatchNothing =>
    LET plain == classify_one(call.title, <<>>, <<>>, <<>>).ret
    IN /\ Classification(call.ret) = Classification(plain)
       /\ call.ret.why = plain.why

\* C29 (input echo): the record classify_one returns has as input the very
\* title string of the call, also when the result cache serves the record.
InputEcho ==
  call.op = "classify_one" => call.ret.input = call.title

\* The department loop without the skip of Ventas: the place in DEPARTMENTS
\* of the first department whose gate the title passes, 0 when there is
\* none.
FirstWithoutSkip(t, external_excludes) ==
  LET hits == {k \in DOMAIN DEPARTMENTS :
                 DEPARTMENTS[k].name \in PassingDepartments(t, external_excludes)}
  IN IF hits = {} THEN 0 ELSE Min(hits)

\* The last call went as far as the department loop: no caller exclude
\* matches and no stage before the loop decides.
ReachesLoop ==
  /\ call.op = "_classify_one_internal"
  /\ \A k \in 1 .. 9 :
       ~StageHits(norm_value(call.title), call.excludes,
                  call.excludes = <<>> /\ fast_classify(call.title) # None)[k]

\* C30 (the skip of Ventas is redundant): the record of a call that goes as
\* far as the department loop is the record the loop gives without the skip
\* of Ventas on the word marketing, for every title and every exclude list:
\* the return at the first department whose gate passes, the no-match
\* record when there is none.
SkipRedundant ==
  ReachesLoop =>
    LET t == norm_value(call.title)
        i == FirstWithoutSkip(t, call.excludes)
    IN call.ret = IF i = 0 THEN no_match_result(call.title)
                  ELSE department_return(call.title, t, DEPARTMENTS[i], <<>>)

\* The loop took the skip where only the skip and the excludes of Ventas
\* stand in the way: the text has the word marketing, a must and a
\* seniority pattern of Ventas match, and Marketing did not take the title.
SkipTaken ==
  /\ ReachesLoop
  /\ re_search("\\bmarketing\\b", norm_value(call.title))
  /\ any_match(norm_value(call.title), Profile("Ventas").must)
  /\ any_match(norm_value(call.title), Profile("Ventas").seniority)
  /\ "Marketing" \notin PassingDepartments(norm_value(call.title), call.excludes)
====
